---- MODULE Spec2Model ----
(***************************************************************************)
(* Model of the campaign_finance ETL.                                      *)
(*   src/src/fec_api.py  the HTTP session's retry policy, the paginator    *)
(*                       (_fetch_all_pages) and the three resource getters *)
(*   src/src/etl.py      normalisation, hashing, load_df_to_db and the     *)
(*                       pipeline of the __main__ block                    *)
(*   src/src/db_schema.py the tables and their constraints                 *)
(* The variable `driver` says which entry point the process was started    *)
(* through: "api" (a caller of get_candidates / get_committees /           *)
(* get_contributions), "etl" (python etl.py), "loader" (a caller of        *)
(* load_df_to_db) or "call" (a caller of one of etl.py's pure functions).  *)
(***************************************************************************)
EXTENDS Integers, Sequences, FiniteSets, TLC

VARIABLES
  driver,    \* "api" | "etl" | "loader" | "call"
  api_key,   \* the credential handed to the getters (FEC_API_KEY)
  infer_string, \* the installed pandas infers the str dtype (pandas >= 3)
  endpoint,  \* api driver: the getter that is called
  upstream,  \* resource name -> the sequence of page envelopes the upstream serves
  pg,        \* thread -> state of that thread's _fetch_all_pages call
  requests,  \* HTTP attempts sent to the upstream so far
  db,        \* the store: what is committed
  work,      \* the store as the open connection sees it
  ld,        \* the load_df_to_db call in progress
  faults,    \* failures the environment has injected so far
  run,       \* etl: number of the run; loader: number of the call
  pc,        \* etl: where the __main__ block is
  db_conn,   \* etl: "None" | "open" | "closed"
  session,   \* etl: the HTTP session, "open" | "closed"
  candidates_df,
  units,     \* etl: the futures of the fan-out, in submission order
  job,       \* etl: worker thread -> index of the unit it runs (0: none)
  contrib_dfs,
  all_committee_ids,
  all_contributions_df,
  error,     \* etl: the exception the try block ended with ("none": none)
  exit_status, \* etl: how the run ended for its caller
  history,   \* etl: the committed store at the start of each run
  paced,     \* a pacing pause (time.sleep(1)) has ended since the last HTTP attempt
  call       \* call driver: the function called, its argument and its result

etlLocals ==
  <<pc, db_conn, session, candidates_df, units, job, contrib_dfs,
    all_committee_ids, all_contributions_df, error, exit_status, history>>

(***************************************************************************)
(* Bounds of the model.                                                    *)
(***************************************************************************)
MaxPages == 3
MaxBatch == 3
MaxFaults == 2
MaxRuns == 2
MaxLen == 6
MaxTargets == 100

(***************************************************************************)
(* Python values.  None is modelled by a sentinel of the value's type.     *)
(***************************************************************************)
NoneInt == 0 - 1

\* A contribution amount as Python holds it: None, an int, a float with an
\* integral value (250.0), or float('nan'), which pandas puts for a missing
\* value in a numeric column.
NoneAmount == [kind |-> "None", v |-> 0]
NaN == [kind |-> "nan", v |-> 0]
IntAmount(n) == [kind |-> "int", v |-> n]
FloatAmount(n) == [kind |-> "float", v |-> n]
NoneStr == "<None>"

\* Python truthiness of an optional string: None and "" are falsy.
Truthy(s) == s # NoneStr /\ s # ""

(***************************************************************************)
(* fec_api.py: create_fec_session.  The Retry object mounted on the        *)
(* session; the fields the code does not set keep urllib3's defaults       *)
(* (GET is retryable, respect_retry_after_header = True,                   *)
(* raise_on_status = True).                                                *)
(***************************************************************************)
RetryTotal == 3
status_forcelist == {500, 502, 504}
RETRY_AFTER_STATUS_CODES == {413, 429, 503}
per_page == 100

Statuses == {200, 404, 429, 500, 502, 503, 504}

\* What the upstream (or the network) answers to one HTTP attempt.
ConnError == [kind |-> "conn", status |-> 0, retry_after |-> FALSE]
Outcomes ==
  {ConnError} \cup
  {[kind |-> "status", status |-> s, retry_after |-> FALSE] : s \in Statuses} \cup
  {[kind |-> "status", status |-> s, retry_after |-> TRUE] : s \in {404, 429, 503}}
NoOutcome == [kind |-> "none", status |-> 0, retry_after |-> FALSE]

IsFailure(o) == o.kind = "conn" \/ o.status >= 400

\* The failure a fetch of a pipeline run is put through: an HTTP error that
\* is not retried (the retries are exercised through the getters).
EtlFailures == {[kind |-> "status", status |-> 404, retry_after |-> FALSE]}

\* A policy that retries every 5xx answer.
is_retry_5xx(total, o) == o.status >= 500

\* urllib3 Retry.is_retry for a GET: a status of the forcelist, or a
\* Retry-After header on 413/429/503 while the total is not yet 0.
is_retry(total, o) ==
  \/ o.status \in status_forcelist
  \/ (total # 0 /\ o.retry_after /\ o.status \in RETRY_AFTER_STATUS_CODES)

(***************************************************************************)
(* The upstream's page envelopes:                                          *)
(*   {results: [...], pagination: {page, pages, last_indexes: {...}}}      *)
(* has_results / has_pagination say whether the key is in the JSON object; *)
(* last_indexes is "dict", "empty" ({}) or "None" (null or missing).       *)
(***************************************************************************)
Items(k, n) == [j \in 1..n |-> <<k, j>>]

PageSize(k, n) == IF k = n THEN 1 ELSE 2

WellFormed(k, n, dated, lastCursor) ==
  [results |-> Items(k, PageSize(k, n)), has_results |-> TRUE,
   has_pagination |-> TRUE, page |-> k, pages |-> n,
   last_indexes |-> IF k = n /\ ~lastCursor THEN "None" ELSE "dict",
   last_index |-> IF k = n /\ ~lastCursor THEN NoneInt ELSE k,
   has_date |-> (k \in dated) /\ (k < n \/ lastCursor),
   date |-> IF (k \in dated) /\ (k < n \/ lastCursor) THEN 100 + k ELSE NoneInt]

DefectKinds ==
  {"no_pagination", "no_page", "no_pages", "no_last_indexes",
   "empty_last_indexes", "no_results"}

Defective(e, kind) ==
  CASE kind = "no_pagination" ->
         [e EXCEPT !.has_pagination = FALSE, !.page = NoneInt, !.pages = NoneInt,
                   !.last_indexes = "None", !.last_index = NoneInt,
                   !.has_date = FALSE, !.date = NoneInt]
    [] kind = "no_page" -> [e EXCEPT !.page = NoneInt]
    [] kind = "no_pages" -> [e EXCEPT !.pages = NoneInt]
    [] kind = "no_last_indexes" ->
         [e EXCEPT !.last_indexes = "None", !.last_index = NoneInt,
                   !.has_date = FALSE, !.date = NoneInt]
    [] kind = "empty_last_indexes" ->
         [e EXCEPT !.last_indexes = "empty", !.last_index = NoneInt,
                   !.has_date = FALSE, !.date = NoneInt]
    [] kind = "no_results" -> [e EXCEPT !.has_results = FALSE, !.results = <<>>]
    [] OTHER -> e

\* An n-page upstream; defect = <<0, "none">> leaves every envelope as the
\* interface describes it, <<k, kind>> breaks page k's envelope.
Pages(n, dated, lastCursor, defect) ==
  [k \in 1..n |->
     IF defect[1] = k THEN Defective(WellFormed(k, n, dated, lastCursor), defect[2])
     ELSE WellFormed(k, n, dated, lastCursor)]

\* The envelope past the last page: nothing left.
PastEnd(k, n) ==
  [results |-> <<>>, has_results |-> TRUE, has_pagination |-> TRUE,
   page |-> k, pages |-> n, last_indexes |-> "None", last_index |-> NoneInt,
   has_date |-> FALSE, date |-> NoneInt]

\* The cursor decides the page served: no last_index is the first page,
\* last_index = k (page k's cursor) is page k + 1.  requests drops a
\* parameter whose value is None.
CursorPage(params) ==
  IF params.last_index = NoneInt THEN 1 ELSE params.last_index + 1

Serve(res, params) ==
  LET k == CursorPage(params)
      n == Len(upstream[res])
  IN IF k \in 1..n THEN upstream[res][k] ELSE PastEnd(k, n)

\* An envelope sequence in which every page but the last carries a cursor
\* and its page numbers: the upstream "serves n pages".
ServesAllPages(ps) ==
  \A k \in 1..Len(ps) :
     /\ ps[k].has_results
     /\ k < Len(ps) =>
          /\ ps[k].has_pagination /\ ps[k].last_indexes = "dict"
          /\ ps[k].last_index = k
          /\ ps[k].page = k /\ ps[k].pages = Len(ps)
     /\ k = Len(ps) =>
          \/ ~ps[k].has_pagination
          \/ ps[k].last_indexes # "dict"
          \/ (ps[k].page # NoneInt /\ ps[k].pages # NoneInt /\ ps[k].page >= ps[k].pages)

RECURSIVE ConcatResults(_, _)
ConcatResults(ps, n) ==
  IF n = 0 THEN <<>> ELSE ConcatResults(ps, n - 1) \o ps[n].results

(***************************************************************************)
(* fec_api.py: _fetch_all_pages.                                           *)
(***************************************************************************)
Workers == {"w1", "w2"}
Threads == {"main"} \cup Workers

IdlePg ==
  [pc |-> "idle", res |-> "", params |-> [api_key |-> NoneStr, page |-> 0,
   per_page |-> 0, last_index |-> NoneInt, last_date |-> NoneInt],
   all_results |-> <<>>, retry |-> 0, sent |-> 0, tries |-> 0, failed |-> 0,
   pages_read |-> 0,
   last |-> NoOutcome, err |-> "none"]

\* Lines 36-38: the accumulator and the first request's parameters.
fetch_start(key, res) ==
  [IdlePg EXCEPT !.pc = "requesting", !.res = res,
     !.params = [api_key |-> key, page |-> 1, per_page |-> per_page,
                 last_index |-> NoneInt, last_date |-> NoneInt],
     !.retry = RetryTotal]

\* A getter without the credential check.
get_resource_unchecked(key, res) == fetch_start(key, res)

\* get_candidates / get_committees / get_contributions: the credential
\* check, then _fetch_all_pages.
get_resource(key, res) ==
  IF ~Truthy(key) THEN [IdlePg EXCEPT !.pc = "raised", !.res = res, !.err = "ValueError"]
  ELSE fetch_start(key, res)

\* A loop that stops only once page exceeds pages.
handle_response_gt(p, env) ==
  LET acc == p.all_results \o (IF env.has_results THEN env.results ELSE <<>>)
      q == [p EXCEPT !.all_results = acc, !.pages_read = @ + 1]
      no_cursor == ~env.has_pagination \/ env.last_indexes # "dict"
  IN IF no_cursor THEN [q EXCEPT !.pc = "returned"]
     ELSE IF env.page = NoneInt \/ env.pages = NoneInt
          THEN [q EXCEPT !.pc = "raised", !.err = "TypeError"]
     ELSE IF env.page > env.pages THEN [q EXCEPT !.pc = "returned"]
     ELSE [q EXCEPT !.pc = "sleeping",
                    !.params.last_index = env.last_index,
                    !.params.last_date = IF env.has_date THEN env.date ELSE @]

\* Lines 45-61: one iteration's work on a decoded 200 response.
handle_response(p, env) ==
  LET acc == p.all_results \o (IF env.has_results THEN env.results ELSE <<>>)
      q == [p EXCEPT !.all_results = acc, !.pages_read = @ + 1]
      no_cursor == ~env.has_pagination \/ env.last_indexes # "dict"
  IN IF no_cursor THEN [q EXCEPT !.pc = "returned"]
     ELSE IF env.page = NoneInt \/ env.pages = NoneInt
          THEN [q EXCEPT !.pc = "raised", !.err = "TypeError"]
     ELSE IF env.page >= env.pages THEN [q EXCEPT !.pc = "returned"]
     ELSE [q EXCEPT !.pc = "sleeping",
                    !.params.last_index = env.last_index,
                    !.params.last_date = IF env.has_date THEN env.date ELSE @]

\* session.get + raise_for_status for one HTTP attempt answered by o.
http_attempt(p, o, env) ==
  IF o.kind = "conn" THEN
    IF p.retry > 0 THEN [p EXCEPT !.retry = @ - 1]
    ELSE [p EXCEPT !.pc = "raised", !.err = "ConnectionError"]
  ELSE IF is_retry(p.retry, o) THEN
    IF p.retry > 0 THEN [p EXCEPT !.retry = @ - 1]
    ELSE [p EXCEPT !.pc = "raised", !.err = "RetryError"]
  ELSE IF o.status >= 400 THEN [p EXCEPT !.pc = "raised", !.err = "HTTPError"]
  ELSE handle_response(p, env)

\* One HTTP attempt of thread t's pending session.get.
SessionGet(t) ==
  /\ pg[t].pc = "requesting"
  /\ \E o \in Outcomes :
       /\ (driver = "etl" /\ IsFailure(o)) => (faults < MaxFaults /\ o \in EtlFailures)
       /\ faults' = IF driver = "etl" /\ IsFailure(o) THEN faults + 1 ELSE faults
       /\ LET p == [pg[t] EXCEPT !.sent = @ + 1, !.tries = @ + 1, !.last = o,
                                 !.failed = IF IsFailure(o) THEN @ + 1 ELSE @]
          IN pg' = [pg EXCEPT ![t] = http_attempt(p, o, Serve(p.res, p.params))]
  /\ requests' = requests + 1
  /\ paced' = FALSE
  /\ UNCHANGED <<call, driver, api_key, infer_string, endpoint, upstream, db, work, ld, run, etlLocals>>

\* Line 61: time.sleep(1) returns and the loop issues the next session.get.
PacingSleep(t) ==
  /\ pg[t].pc = "sleeping"
  /\ pg' = [pg EXCEPT ![t] = [@ EXCEPT !.pc = "requesting", !.retry = RetryTotal,
                                       !.tries = 0]]
  /\ paced' = TRUE
  /\ UNCHANGED <<call, driver, api_key, infer_string, endpoint, upstream, requests, db, work, ld, faults, run, etlLocals>>

(***************************************************************************)
(* etl.py: strings.  A Python str is the sequence of its characters, each  *)
(* character its Unicode code point (a number in 0..1114111); None is the  *)
(* one-element sequence NoneSeq, which holds no code point, and the float  *)
(* NaN that stands for a missing value in a str column is NaNSeq.          *)
(***************************************************************************)
NoneSeq == <<NoneInt>>
NaNSeq == <<0 - 4>>

\* The printable characters of ASCII, from the space (32) to '~' (126); the
\* grave accent (96), which no string of this language can hold, is written
\* by its name.
ascii_printable ==
  <<" ", "!", "\"", "#", "$", "%", "&", "'", "(", ")", "*", "+", ",", "-", ".", "/",
    "0", "1", "2", "3", "4", "5", "6", "7", "8", "9", ":", ";", "<", "=", ">", "?",
    "@", "A", "B", "C", "D", "E", "F", "G", "H", "I", "J", "K", "L", "M", "N", "O",
    "P", "Q", "R", "S", "T", "U", "V", "W", "X", "Y", "Z", "[", "\\", "]", "^", "_",
    "U+0060", "a", "b", "c", "d", "e", "f", "g", "h", "i", "j", "k", "l", "m", "n", "o",
    "p", "q", "r", "s", "t", "u", "v", "w", "x", "y", "z", "{", "|", "}", "~">>

\* The str of a text written character by character: ord() of each.
text(cs) ==
  [i \in 1..Len(cs) |->
     31 + CHOOSE k \in 1..Len(ascii_printable) : ascii_printable[k] = cs[i]]

\* The characters str.isspace() holds for, which str.strip() and str.split()
\* without argument act on: \t \n \v \f \r (9..13), the separators 28..31,
\* the space, U+0085, U+00A0, U+1680, U+2000..U+200A, U+2028, U+2029,
\* U+202F, U+205F and U+3000.
Whitespace ==
  (9..13) \cup (28..32) \cup {133, 160, 5760} \cup (8192..8202)
    \cup {8232, 8233, 8239, 8287, 12288}

\* The one-character mappings of str.lower(), as runs
\* <<first, last, step, offset>>: every step-th character from first to
\* last is changed to the character offset after it.
lower_runs ==
  <<<<65, 90, 1, 32>>, <<192, 214, 1, 32>>, <<216, 222, 1, 32>>,
    <<256, 302, 2, 1>>, <<306, 310, 2, 1>>, <<313, 327, 2, 1>>,
    <<330, 374, 2, 1>>, <<376, 376, 1, -121>>, <<377, 381, 2, 1>>,
    <<385, 385, 1, 210>>, <<386, 388, 2, 1>>, <<390, 390, 1, 206>>,
    <<391, 391, 1, 1>>, <<393, 394, 1, 205>>, <<395, 395, 1, 1>>,
    <<398, 398, 1, 79>>, <<399, 399, 1, 202>>, <<400, 400, 1, 203>>,
    <<401, 401, 1, 1>>, <<403, 403, 1, 205>>, <<404, 404, 1, 207>>,
    <<406, 406, 1, 211>>, <<407, 407, 1, 209>>, <<408, 408, 1, 1>>,
    <<412, 412, 1, 211>>, <<413, 413, 1, 213>>, <<415, 415, 1, 214>>,
    <<416, 420, 2, 1>>, <<422, 422, 1, 218>>, <<423, 423, 1, 1>>,
    <<425, 425, 1, 218>>, <<428, 428, 1, 1>>, <<430, 430, 1, 218>>,
    <<431, 431, 1, 1>>, <<433, 434, 1, 217>>, <<435, 437, 2, 1>>,
    <<439, 439, 1, 219>>, <<440, 440, 1, 1>>, <<444, 444, 1, 1>>,
    <<452, 452, 1, 2>>, <<453, 453, 1, 1>>, <<455, 455, 1, 2>>,
    <<456, 456, 1, 1>>, <<458, 458, 1, 2>>, <<459, 475, 2, 1>>,
    <<478, 494, 2, 1>>, <<497, 497, 1, 2>>, <<498, 500, 2, 1>>,
    <<502, 502, 1, -97>>, <<503, 503, 1, -56>>, <<504, 542, 2, 1>>,
    <<544, 544, 1, -130>>, <<546, 562, 2, 1>>, <<570, 570, 1, 10795>>,
    <<571, 571, 1, 1>>, <<573, 573, 1, -163>>, <<574, 574, 1, 10792>>,
    <<577, 577, 1, 1>>, <<579, 579, 1, -195>>, <<580, 580, 1, 69>>,
    <<581, 581, 1, 71>>, <<582, 590, 2, 1>>, <<880, 882, 2, 1>>,
    <<886, 886, 1, 1>>, <<895, 895, 1, 116>>, <<902, 902, 1, 38>>,
    <<904, 906, 1, 37>>, <<908, 908, 1, 64>>, <<910, 911, 1, 63>>,
    <<913, 929, 1, 32>>, <<931, 939, 1, 32>>, <<975, 975, 1, 8>>,
    <<984, 1006, 2, 1>>, <<1012, 1012, 1, -60>>, <<1015, 1015, 1, 1>>,
    <<1017, 1017, 1, -7>>, <<1018, 1018, 1, 1>>,
    <<1021, 1023, 1, -130>>, <<1024, 1039, 1, 80>>, <<1040, 1071, 1, 32>>,
    <<1120, 1152, 2, 1>>, <<1162, 1214, 2, 1>>, <<1216, 1216, 1, 15>>,
    <<1217, 1229, 2, 1>>, <<1232, 1326, 2, 1>>, <<1329, 1366, 1, 48>>,
    <<4256, 4293, 1, 7264>>, <<4295, 4295, 1, 7264>>,
    <<4301, 4301, 1, 7264>>, <<5024, 5103, 1, 38864>>, <<5104, 5109, 1, 8>>,
    <<7312, 7354, 1, -3008>>, <<7357, 7359, 1, -3008>>,
    <<7680, 7828, 2, 1>>, <<7838, 7838, 1, -7615>>, <<7840, 7934, 2, 1>>,
    <<7944, 7951, 1, -8>>, <<7960, 7965, 1, -8>>,
    <<7976, 7983, 1, -8>>, <<7992, 7999, 1, -8>>,
    <<8008, 8013, 1, -8>>, <<8025, 8031, 2, -8>>,
    <<8040, 8047, 1, -8>>, <<8072, 8079, 1, -8>>,
    <<8088, 8095, 1, -8>>, <<8104, 8111, 1, -8>>,
    <<8120, 8121, 1, -8>>, <<8122, 8123, 1, -74>>,
    <<8124, 8124, 1, -9>>, <<8136, 8139, 1, -86>>,
    <<8140, 8140, 1, -9>>, <<8152, 8153, 1, -8>>,
    <<8154, 8155, 1, -100>>, <<8168, 8169, 1, -8>>,
    <<8170, 8171, 1, -112>>, <<8172, 8172, 1, -7>>,
    <<8184, 8185, 1, -128>>, <<8186, 8187, 1, -126>>,
    <<8188, 8188, 1, -9>>, <<8486, 8486, 1, -7517>>,
    <<8490, 8490, 1, -8383>>, <<8491, 8491, 1, -8262>>,
    <<8498, 8498, 1, 28>>, <<8544, 8559, 1, 16>>, <<8579, 8579, 1, 1>>,
    <<9398, 9423, 1, 26>>, <<11264, 11311, 1, 48>>, <<11360, 11360, 1, 1>>,
    <<11362, 11362, 1, -10743>>, <<11363, 11363, 1, -3814>>,
    <<11364, 11364, 1, -10727>>, <<11367, 11371, 2, 1>>,
    <<11373, 11373, 1, -10780>>, <<11374, 11374, 1, -10749>>,
    <<11375, 11375, 1, -10783>>, <<11376, 11376, 1, -10782>>,
    <<11378, 11378, 1, 1>>, <<11381, 11381, 1, 1>>,
    <<11390, 11391, 1, -10815>>, <<11392, 11490, 2, 1>>,
    <<11499, 11501, 2, 1>>, <<11506, 11506, 1, 1>>, <<42560, 42604, 2, 1>>,
    <<42624, 42650, 2, 1>>, <<42786, 42798, 2, 1>>, <<42802, 42862, 2, 1>>,
    <<42873, 42875, 2, 1>>, <<42877, 42877, 1, -35332>>,
    <<42878, 42886, 2, 1>>, <<42891, 42891, 1, 1>>,
    <<42893, 42893, 1, -42280>>, <<42896, 42898, 2, 1>>,
    <<42902, 42920, 2, 1>>, <<42922, 42922, 1, -42308>>,
    <<42923, 42923, 1, -42319>>, <<42924, 42924, 1, -42315>>,
    <<42925, 42925, 1, -42305>>, <<42926, 42926, 1, -42308>>,
    <<42928, 42928, 1, -42258>>, <<42929, 42929, 1, -42282>>,
    <<42930, 42930, 1, -42261>>, <<42931, 42931, 1, 928>>,
    <<42932, 42946, 2, 1>>, <<42948, 42948, 1, -48>>,
    <<42949, 42949, 1, -42307>>, <<42950, 42950, 1, -35384>>,
    <<42951, 42953, 2, 1>>, <<42960, 42960, 1, 1>>, <<42966, 42968, 2, 1>>,
    <<42997, 42997, 1, 1>>, <<65313, 65338, 1, 32>>, <<66560, 66599, 1, 40>>,
    <<66736, 66771, 1, 40>>, <<66928, 66938, 1, 39>>,
    <<66940, 66954, 1, 39>>, <<66956, 66962, 1, 39>>,
    <<66964, 66965, 1, 39>>, <<68736, 68786, 1, 64>>,
    <<71840, 71871, 1, 32>>, <<93760, 93791, 1, 32>>,
    <<125184, 125217, 1, 34>>>>

\* The cased characters that are not case-ignorable, and the case-ignorable
\* characters, as ranges <<first, last>>: what str.lower() asks of the
\* neighbours of a capital sigma.
cased_ranges ==
  <<<<65, 90>>, <<97, 122>>, <<170, 170>>, <<181, 181>>, <<186, 186>>,
    <<192, 214>>, <<216, 246>>, <<248, 442>>, <<444, 447>>, <<452, 659>>,
    <<661, 687>>, <<880, 883>>, <<886, 887>>, <<891, 893>>, <<895, 895>>,
    <<902, 902>>, <<904, 906>>, <<908, 908>>, <<910, 929>>, <<931, 1013>>,
    <<1015, 1153>>, <<1162, 1327>>, <<1329, 1366>>, <<1376, 1416>>,
    <<4256, 4293>>, <<4295, 4295>>, <<4301, 4301>>, <<4304, 4346>>,
    <<4349, 4351>>, <<5024, 5109>>, <<5112, 5117>>, <<7296, 7304>>,
    <<7312, 7354>>, <<7357, 7359>>, <<7424, 7467>>, <<7531, 7543>>,
    <<7545, 7578>>, <<7680, 7957>>, <<7960, 7965>>, <<7968, 8005>>,
    <<8008, 8013>>, <<8016, 8023>>, <<8025, 8025>>, <<8027, 8027>>,
    <<8029, 8029>>, <<8031, 8061>>, <<8064, 8116>>, <<8118, 8124>>,
    <<8126, 8126>>, <<8130, 8132>>, <<8134, 8140>>, <<8144, 8147>>,
    <<8150, 8155>>, <<8160, 8172>>, <<8178, 8180>>, <<8182, 8188>>,
    <<8450, 8450>>, <<8455, 8455>>, <<8458, 8467>>, <<8469, 8469>>,
    <<8473, 8477>>, <<8484, 8484>>, <<8486, 8486>>, <<8488, 8488>>,
    <<8490, 8493>>, <<8495, 8500>>, <<8505, 8505>>, <<8508, 8511>>,
    <<8517, 8521>>, <<8526, 8526>>, <<8544, 8575>>, <<8579, 8580>>,
    <<9398, 9449>>, <<11264, 11387>>, <<11390, 11492>>, <<11499, 11502>>,
    <<11506, 11507>>, <<11520, 11557>>, <<11559, 11559>>, <<11565, 11565>>,
    <<42560, 42605>>, <<42624, 42651>>, <<42786, 42863>>, <<42865, 42887>>,
    <<42891, 42894>>, <<42896, 42954>>, <<42960, 42961>>, <<42963, 42963>>,
    <<42965, 42969>>, <<42997, 42998>>, <<43002, 43002>>, <<43824, 43866>>,
    <<43872, 43880>>, <<43888, 43967>>, <<64256, 64262>>, <<64275, 64279>>,
    <<65313, 65338>>, <<65345, 65370>>, <<66560, 66639>>, <<66736, 66771>>,
    <<66776, 66811>>, <<66928, 66938>>, <<66940, 66954>>, <<66956, 66962>>,
    <<66964, 66965>>, <<66967, 66977>>, <<66979, 66993>>, <<66995, 67001>>,
    <<67003, 67004>>, <<68736, 68786>>, <<68800, 68850>>, <<71840, 71903>>,
    <<93760, 93823>>, <<119808, 119892>>, <<119894, 119964>>,
    <<119966, 119967>>, <<119970, 119970>>, <<119973, 119974>>,
    <<119977, 119980>>, <<119982, 119993>>, <<119995, 119995>>,
    <<119997, 120003>>, <<120005, 120069>>, <<120071, 120074>>,
    <<120077, 120084>>, <<120086, 120092>>, <<120094, 120121>>,
    <<120123, 120126>>, <<120128, 120132>>, <<120134, 120134>>,
    <<120138, 120144>>, <<120146, 120485>>, <<120488, 120512>>,
    <<120514, 120538>>, <<120540, 120570>>, <<120572, 120596>>,
    <<120598, 120628>>, <<120630, 120654>>, <<120656, 120686>>,
    <<120688, 120712>>, <<120714, 120744>>, <<120746, 120770>>,
    <<120772, 120779>>, <<122624, 122633>>, <<122635, 122654>>,
    <<125184, 125251>>, <<127280, 127305>>, <<127312, 127337>>,
    <<127344, 127369>>>>

case_ignorable_ranges ==
  <<<<39, 39>>, <<46, 46>>, <<58, 58>>, <<94, 94>>, <<96, 96>>, <<168, 168>>,
    <<173, 173>>, <<175, 175>>, <<180, 180>>, <<183, 184>>, <<688, 879>>,
    <<884, 885>>, <<890, 890>>, <<900, 901>>, <<903, 903>>, <<1155, 1161>>,
    <<1369, 1369>>, <<1375, 1375>>, <<1425, 1469>>, <<1471, 1471>>,
    <<1473, 1474>>, <<1476, 1477>>, <<1479, 1479>>, <<1524, 1524>>,
    <<1536, 1541>>, <<1552, 1562>>, <<1564, 1564>>, <<1600, 1600>>,
    <<1611, 1631>>, <<1648, 1648>>, <<1750, 1757>>, <<1759, 1768>>,
    <<1770, 1773>>, <<1807, 1807>>, <<1809, 1809>>, <<1840, 1866>>,
    <<1958, 1968>>, <<2027, 2037>>, <<2042, 2042>>, <<2045, 2045>>,
    <<2070, 2093>>, <<2137, 2139>>, <<2184, 2184>>, <<2192, 2193>>,
    <<2200, 2207>>, <<2249, 2306>>, <<2362, 2362>>, <<2364, 2364>>,
    <<2369, 2376>>, <<2381, 2381>>, <<2385, 2391>>, <<2402, 2403>>,
    <<2417, 2417>>, <<2433, 2433>>, <<2492, 2492>>, <<2497, 2500>>,
    <<2509, 2509>>, <<2530, 2531>>, <<2558, 2558>>, <<2561, 2562>>,
    <<2620, 2620>>, <<2625, 2626>>, <<2631, 2632>>, <<2635, 2637>>,
    <<2641, 2641>>, <<2672, 2673>>, <<2677, 2677>>, <<2689, 2690>>,
    <<2748, 2748>>, <<2753, 2757>>, <<2759, 2760>>, <<2765, 2765>>,
    <<2786, 2787>>, <<2810, 2815>>, <<2817, 2817>>, <<2876, 2876>>,
    <<2879, 2879>>, <<2881, 2884>>, <<2893, 2893>>, <<2901, 2902>>,
    <<2914, 2915>>, <<2946, 2946>>, <<3008, 3008>>, <<3021, 3021>>,
    <<3072, 3072>>, <<3076, 3076>>, <<3132, 3132>>, <<3134, 3136>>,
    <<3142, 3144>>, <<3146, 3149>>, <<3157, 3158>>, <<3170, 3171>>,
    <<3201, 3201>>, <<3260, 3260>>, <<3263, 3263>>, <<3270, 3270>>,
    <<3276, 3277>>, <<3298, 3299>>, <<3328, 3329>>, <<3387, 3388>>,
    <<3393, 3396>>, <<3405, 3405>>, <<3426, 3427>>, <<3457, 3457>>,
    <<3530, 3530>>, <<3538, 3540>>, <<3542, 3542>>, <<3633, 3633>>,
    <<3636, 3642>>, <<3654, 3662>>, <<3761, 3761>>, <<3764, 3772>>,
    <<3782, 3782>>, <<3784, 3789>>, <<3864, 3865>>, <<3893, 3893>>,
    <<3895, 3895>>, <<3897, 3897>>, <<3953, 3966>>, <<3968, 3972>>,
    <<3974, 3975>>, <<3981, 3991>>, <<3993, 4028>>, <<4038, 4038>>,
    <<4141, 4144>>, <<4146, 4151>>, <<4153, 4154>>, <<4157, 4158>>,
    <<4184, 4185>>, <<4190, 4192>>, <<4209, 4212>>, <<4226, 4226>>,
    <<4229, 4230>>, <<4237, 4237>>, <<4253, 4253>>, <<4348, 4348>>,
    <<4957, 4959>>, <<5906, 5908>>, <<5938, 5939>>, <<5970, 5971>>,
    <<6002, 6003>>, <<6068, 6069>>, <<6071, 6077>>, <<6086, 6086>>,
    <<6089, 6099>>, <<6103, 6103>>, <<6109, 6109>>, <<6155, 6159>>,
    <<6211, 6211>>, <<6277, 6278>>, <<6313, 6313>>, <<6432, 6434>>,
    <<6439, 6440>>, <<6450, 6450>>, <<6457, 6459>>, <<6679, 6680>>,
    <<6683, 6683>>, <<6742, 6742>>, <<6744, 6750>>, <<6752, 6752>>,
    <<6754, 6754>>, <<6757, 6764>>, <<6771, 6780>>, <<6783, 6783>>,
    <<6823, 6823>>, <<6832, 6862>>, <<6912, 6915>>, <<6964, 6964>>,
    <<6966, 6970>>, <<6972, 6972>>, <<6978, 6978>>, <<7019, 7027>>,
    <<7040, 7041>>, <<7074, 7077>>, <<7080, 7081>>, <<7083, 7085>>,
    <<7142, 7142>>, <<7144, 7145>>, <<7149, 7149>>, <<7151, 7153>>,
    <<7212, 7219>>, <<7222, 7223>>, <<7288, 7293>>, <<7376, 7378>>,
    <<7380, 7392>>, <<7394, 7400>>, <<7405, 7405>>, <<7412, 7412>>,
    <<7416, 7417>>, <<7468, 7530>>, <<7544, 7544>>, <<7579, 7679>>,
    <<8125, 8125>>, <<8127, 8129>>, <<8141, 8143>>, <<8157, 8159>>,
    <<8173, 8175>>, <<8189, 8190>>, <<8203, 8207>>, <<8216, 8217>>,
    <<8228, 8228>>, <<8231, 8231>>, <<8234, 8238>>, <<8288, 8292>>,
    <<8294, 8303>>, <<8305, 8305>>, <<8319, 8319>>, <<8336, 8348>>,
    <<8400, 8432>>, <<11388, 11389>>, <<11503, 11505>>, <<11631, 11631>>,
    <<11647, 11647>>, <<11744, 11775>>, <<11823, 11823>>, <<12293, 12293>>,
    <<12330, 12333>>, <<12337, 12341>>, <<12347, 12347>>, <<12441, 12446>>,
    <<12540, 12542>>, <<40981, 40981>>, <<42232, 42237>>, <<42508, 42508>>,
    <<42607, 42610>>, <<42612, 42621>>, <<42623, 42623>>, <<42652, 42655>>,
    <<42736, 42737>>, <<42752, 42785>>, <<42864, 42864>>, <<42888, 42890>>,
    <<42994, 42996>>, <<43000, 43001>>, <<43010, 43010>>, <<43014, 43014>>,
    <<43019, 43019>>, <<43045, 43046>>, <<43052, 43052>>, <<43204, 43205>>,
    <<43232, 43249>>, <<43263, 43263>>, <<43302, 43309>>, <<43335, 43345>>,
    <<43392, 43394>>, <<43443, 43443>>, <<43446, 43449>>, <<43452, 43453>>,
    <<43471, 43471>>, <<43493, 43494>>, <<43561, 43566>>, <<43569, 43570>>,
    <<43573, 43574>>, <<43587, 43587>>, <<43596, 43596>>, <<43632, 43632>>,
    <<43644, 43644>>, <<43696, 43696>>, <<43698, 43700>>, <<43703, 43704>>,
    <<43710, 43711>>, <<43713, 43713>>, <<43741, 43741>>, <<43756, 43757>>,
    <<43763, 43764>>, <<43766, 43766>>, <<43867, 43871>>, <<43881, 43883>>,
    <<44005, 44005>>, <<44008, 44008>>, <<44013, 44013>>, <<64286, 64286>>,
    <<64434, 64450>>, <<65024, 65039>>, <<65043, 65043>>, <<65056, 65071>>,
    <<65106, 65106>>, <<65109, 65109>>, <<65279, 65279>>, <<65287, 65287>>,
    <<65294, 65294>>, <<65306, 65306>>, <<65342, 65342>>, <<65344, 65344>>,
    <<65392, 65392>>, <<65438, 65439>>, <<65507, 65507>>, <<65529, 65531>>,
    <<66045, 66045>>, <<66272, 66272>>, <<66422, 66426>>, <<67456, 67461>>,
    <<67463, 67504>>, <<67506, 67514>>, <<68097, 68099>>, <<68101, 68102>>,
    <<68108, 68111>>, <<68152, 68154>>, <<68159, 68159>>, <<68325, 68326>>,
    <<68900, 68903>>, <<69291, 69292>>, <<69446, 69456>>, <<69506, 69509>>,
    <<69633, 69633>>, <<69688, 69702>>, <<69744, 69744>>, <<69747, 69748>>,
    <<69759, 69761>>, <<69811, 69814>>, <<69817, 69818>>, <<69821, 69821>>,
    <<69826, 69826>>, <<69837, 69837>>, <<69888, 69890>>, <<69927, 69931>>,
    <<69933, 69940>>, <<70003, 70003>>, <<70016, 70017>>, <<70070, 70078>>,
    <<70089, 70092>>, <<70095, 70095>>, <<70191, 70193>>, <<70196, 70196>>,
    <<70198, 70199>>, <<70206, 70206>>, <<70367, 70367>>, <<70371, 70378>>,
    <<70400, 70401>>, <<70459, 70460>>, <<70464, 70464>>, <<70502, 70508>>,
    <<70512, 70516>>, <<70712, 70719>>, <<70722, 70724>>, <<70726, 70726>>,
    <<70750, 70750>>, <<70835, 70840>>, <<70842, 70842>>, <<70847, 70848>>,
    <<70850, 70851>>, <<71090, 71093>>, <<71100, 71101>>, <<71103, 71104>>,
    <<71132, 71133>>, <<71219, 71226>>, <<71229, 71229>>, <<71231, 71232>>,
    <<71339, 71339>>, <<71341, 71341>>, <<71344, 71349>>, <<71351, 71351>>,
    <<71453, 71455>>, <<71458, 71461>>, <<71463, 71467>>, <<71727, 71735>>,
    <<71737, 71738>>, <<71995, 71996>>, <<71998, 71998>>, <<72003, 72003>>,
    <<72148, 72151>>, <<72154, 72155>>, <<72160, 72160>>, <<72193, 72202>>,
    <<72243, 72248>>, <<72251, 72254>>, <<72263, 72263>>, <<72273, 72278>>,
    <<72281, 72283>>, <<72330, 72342>>, <<72344, 72345>>, <<72752, 72758>>,
    <<72760, 72765>>, <<72767, 72767>>, <<72850, 72871>>, <<72874, 72880>>,
    <<72882, 72883>>, <<72885, 72886>>, <<73009, 73014>>, <<73018, 73018>>,
    <<73020, 73021>>, <<73023, 73029>>, <<73031, 73031>>, <<73104, 73105>>,
    <<73109, 73109>>, <<73111, 73111>>, <<73459, 73460>>, <<78896, 78904>>,
    <<92912, 92916>>, <<92976, 92982>>, <<92992, 92995>>, <<94031, 94031>>,
    <<94095, 94111>>, <<94176, 94177>>, <<94179, 94180>>, <<110576, 110579>>,
    <<110581, 110587>>, <<110589, 110590>>, <<113821, 113822>>,
    <<113824, 113827>>, <<118528, 118573>>, <<118576, 118598>>,
    <<119143, 119145>>, <<119155, 119170>>, <<119173, 119179>>,
    <<119210, 119213>>, <<119362, 119364>>, <<121344, 121398>>,
    <<121403, 121452>>, <<121461, 121461>>, <<121476, 121476>>,
    <<121499, 121503>>, <<121505, 121519>>, <<122880, 122886>>,
    <<122888, 122904>>, <<122907, 122913>>, <<122915, 122916>>,
    <<122918, 122922>>, <<123184, 123197>>, <<123566, 123566>>,
    <<123628, 123631>>, <<125136, 125142>>, <<125252, 125259>>,
    <<127995, 127999>>, <<917505, 917505>>, <<917536, 917631>>,
    <<917760, 917999>>>>

\* str.lower() on one character that lowers to one character.
LowerChar(c) ==
  IF c < 128 THEN (IF 65 <= c /\ c <= 90 THEN c + 32 ELSE c)
  ELSE IF \E k \in 1..Len(lower_runs) :
            /\ lower_runs[k][1] <= c /\ c <= lower_runs[k][2]
            /\ (c - lower_runs[k][1]) % lower_runs[k][3] = 0
  THEN c + lower_runs[CHOOSE k \in 1..Len(lower_runs) :
                        /\ lower_runs[k][1] <= c /\ c <= lower_runs[k][2]
                        /\ (c - lower_runs[k][1]) % lower_runs[k][3] = 0][4]
  ELSE c

\* The capital sigma at s[i] ends a word: going back over case-ignorable
\* characters there is a cased one, going forward there is none.
final_sigma(s, i) ==
  LET in_ranges(c, ranges) ==
        \E k \in 1..Len(ranges) : ranges[k][1] <= c /\ c <= ranges[k][2]
      before == {j \in 1..(i - 1) : ~in_ranges(s[j], case_ignorable_ranges)}
      after == {j \in (i + 1)..Len(s) : ~in_ranges(s[j], case_ignorable_ranges)}
  IN /\ before # {}
     /\ in_ranges(s[CHOOSE j \in before : \A k \in before : k <= j], cased_ranges)
     /\ \/ after = {}
        \/ ~in_ranges(s[CHOOSE j \in after : \A k \in after : j <= k], cased_ranges)

\* sep.join(parts)
RECURSIVE join(_, _)
join(sep, parts) ==
  IF parts = <<>> THEN <<>>
  ELSE IF Len(parts) = 1 THEN Head(parts)
  ELSE Head(parts) \o sep \o join(sep, Tail(parts))

\* str.lower() from the i-th character on: the capital sigma (931) becomes
\* the final (962) or the medial (963) small sigma, the dotted capital I
\* (304) becomes 'i' and a combining dot above (105, 775), every other
\* character the one LowerChar gives.
RECURSIVE lower_from(_, _)
lower_from(s, i) ==
  IF i > Len(s) THEN <<>>
  ELSE (IF s[i] = 931 THEN <<(IF final_sigma(s, i) THEN 962 ELSE 963)>>
        ELSE IF s[i] = 304 THEN <<105, 775>>
        ELSE <<LowerChar(s[i])>>) \o lower_from(s, i + 1)

lower(s) == lower_from(s, 1)

\* str.split() without arguments: the maximal runs of non-whitespace.
RECURSIVE split(_)
split(s) ==
  IF s = <<>> THEN <<>>
  ELSE IF Head(s) \in Whitespace THEN split(Tail(s))
  ELSE LET rest == split(Tail(s))
       IN IF Len(s) > 1 /\ s[2] \notin Whitespace
          THEN <<(<<Head(s)>> \o Head(rest))>> \o Tail(rest)
          ELSE <<(<<Head(s)>>)>> \o rest

\* A normalisation that trims and collapses but keeps the letters' case.
normalize_str_cased(s) ==
  IF s = NoneSeq THEN <<>>
  ELSE IF s = NaNSeq THEN <<110, 97, 110>>
  ELSE join(<<32>>, split(s))

\* etl.py 16-19.  strip() before split() changes nothing split() does not;
\* str() of the float NaN is 'nan'.
normalize_str(s) ==
  IF s = NoneSeq THEN <<>>
  ELSE IF s = NaNSeq THEN <<110, 97, 110>>
  ELSE join(<<32>>, split(lower(s)))

\* What a call that raises UnicodeEncodeError yields in the place of a
\* value.
UnicodeEncodeError == <<0 - 3>>

\* etl.py 22-23.  s.encode("utf-8") raises UnicodeEncodeError when s holds
\* a surrogate code point (U+D800..U+DFFF, which json.loads produces from
\* an unpaired \uD800 escape).  SHA-256 is modelled as collision free: the
\* digest of s is s behind a marker that is no character.
sha256_hex(s) ==
  IF SelectSeq(s, LAMBDA c : 55296 <= c /\ c <= 57343) # <<>> THEN UnicodeEncodeError
  ELSE <<0 - 2>> \o s

\* x or '' followed by str(): None and the empty string give '', NaN (which
\* is truthy) gives 'nan'.
StrOrEmpty(s) ==
  IF s = NoneSeq THEN <<>> ELSE IF s = NaNSeq THEN <<110, 97, 110>> ELSE s

\* str(n) of a non-negative int: its decimal digits ('0' is 48).
RECURSIVE NatStr(_)
NatStr(n) ==
  IF n < 10 THEN <<48 + n>>
  ELSE NatStr(n \div 10) \o <<48 + (n % 10)>>

IntStr(n) == IF n < 0 THEN <<45>> \o NatStr(0 - n) ELSE NatStr(n)

\* str(x) of an amount: 'None', 'nan', the digits of an int, the digits
\* and '.0' of an integral float.
str_amount(a) ==
  CASE a.kind = "None" -> <<78, 111, 110, 101>>
    [] a.kind = "nan" -> <<110, 97, 110>>
    [] a.kind = "int" -> IntStr(a.v)
    [] OTHER -> IntStr(a.v) \o <<46, 48>>

\* bool(x) of an amount: None, 0 and 0.0 are falsy, NaN is truthy.
amount_truthy(a) == a.kind = "nan" \/ (a.kind \in {"int", "float"} /\ a.v # 0)

\* str(row.get('contribution_amount') or '') (line 212).
AmountStr(a) == IF amount_truthy(a) THEN str_amount(a) ELSE <<>>

(***************************************************************************)
(* etl.py: transforms (26-69).                                             *)
(***************************************************************************)
\* One candidate of the API to a candidates row.
transform_candidate(c) ==
  [candidate_id |-> c.candidate_id, name |-> c.name, party |-> c.party,
   state |-> c.state, office |-> c.office,
   election_year |-> c.election_years[1]]

transform_candidates_to_df(results) ==
  [i \in 1..Len(results) |-> transform_candidate(results[i])]

\* One schedule_a record to a contributions row (the keys are renamed).
transform_contribution(c) ==
  [committee_id |-> c.committee_id,
   contributor_name |-> c.contributor_name,
   contributor_city |-> c.contributor_city,
   contributor_state |-> c.contributor_state,
   contributor_zip_code |-> c.contributor_zip,
   contribution_date |-> c.contribution_receipt_date,
   contribution_amount |-> c.contribution_receipt_amount,
   contributor_occupation |-> c.contributor_occupation,
   contributor_employer |-> c.contributor_employer]

\* pd.DataFrame(list of dicts) infers the dtype of the amount column: all
\* None stays an object column of None; all int is int64; anything else is
\* float64, in which an int is the float of its value and None is NaN.
amount_in_column(a, kinds) ==
  IF kinds \subseteq {"None"} \/ kinds \subseteq {"int"} THEN a
  ELSE IF a.kind = "None" THEN NaN
  ELSE IF a.kind = "int" THEN FloatAmount(a.v)
  ELSE a

\* pd.DataFrame(list of dicts) infers the dtype of a text column as well:
\* with infer_string (the default from pandas 3 on) a column that holds a
\* str is a str column, in which None is NaN; without it, and when the
\* column holds None only, it is an object column that keeps None.
transform_contributions_to_df(results, str_inferred) ==
  LET kinds == {results[i].contribution_receipt_amount.kind : i \in 1..Len(results)}
      col(c) == {transform_contribution(results[i])[c] : i \in 1..Len(results)}
      text_value(r, c) ==
        IF str_inferred /\ r[c] = NoneSeq /\ col(c) # {NoneSeq} THEN NaNSeq ELSE r[c]
  IN [i \in 1..Len(results) |->
        LET r == transform_contribution(results[i])
        IN [committee_id |-> text_value(r, "committee_id"),
            contributor_name |-> text_value(r, "contributor_name"),
            contributor_city |-> text_value(r, "contributor_city"),
            contributor_state |-> text_value(r, "contributor_state"),
            contributor_zip_code |-> text_value(r, "contributor_zip_code"),
            contribution_date |-> text_value(r, "contribution_date"),
            contribution_amount |-> amount_in_column(r.contribution_amount, kinds),
            contributor_occupation |-> text_value(r, "contributor_occupation"),
            contributor_employer |-> text_value(r, "contributor_employer")]]

(***************************************************************************)
(* etl.py 165-188: the contributor columns, the identity hash and the      *)
(* contributors frame.                                                     *)
(***************************************************************************)
NormParts(row) ==
  <<normalize_str(row.contributor_name), normalize_str(row.contributor_city),
    normalize_str(row.contributor_state), normalize_str(row.contributor_zip_code),
    normalize_str(row.contributor_occupation), normalize_str(row.contributor_employer)>>

make_contributor_hash(row) == sha256_hex(join(<<124>>, NormParts(row)))

with_contributor_hash(df) ==
  [i \in 1..Len(df) |-> [contributor_hash |-> make_contributor_hash(df[i]), row |-> df[i]]]

\* drop_duplicates(key): the first row of every key value, in order.
RECURSIVE drop_duplicates_from(_, _, _)
drop_duplicates_from(df, key, seen) ==
  IF df = <<>> THEN <<>>
  ELSE IF Head(df)[key] \in seen THEN drop_duplicates_from(Tail(df), key, seen)
  ELSE <<Head(df)>> \o drop_duplicates_from(Tail(df), key, seen \cup {Head(df)[key]})

drop_duplicates(df, key) == drop_duplicates_from(df, key, {})

\* Lines 181-188: one contributors row per identity hash, with the raw
\* descriptive fields of the first contribution that carries it.
contributors_df(hashed) ==
  LET firsts == drop_duplicates(hashed, "contributor_hash")
  IN [i \in 1..Len(firsts) |->
        [contributor_hash |-> firsts[i].contributor_hash,
         name |-> firsts[i].row.contributor_name,
         city |-> firsts[i].row.contributor_city,
         state |-> firsts[i].row.contributor_state,
         zip_code |-> firsts[i].row.contributor_zip_code,
         occupation |-> firsts[i].row.contributor_occupation,
         employer |-> firsts[i].row.contributor_employer]]

(***************************************************************************)
(* etl.py 208-218, 246: contributor ids, the contribution hash, the        *)
(* batch's own duplicates, the columns of the table.                       *)
(***************************************************************************)
make_contribution_hash(h) ==
  sha256_hex(join(<<124>>,
    <<StrOrEmpty(h.row.committee_id), StrOrEmpty(h.row.contribution_date),
      AmountStr(h.row.contribution_amount), StrOrEmpty(h.contributor_hash)>>))

\* Series.map(dict): a hash the dict does not hold maps to NaN (NoneInt).
final_contribution(h, id_map) ==
  [committee_id |-> h.row.committee_id,
   contributor_id |-> IF h.contributor_hash \in DOMAIN id_map
                      THEN id_map[h.contributor_hash] ELSE NoneInt,
   contribution_date |-> h.row.contribution_date,
   contribution_amount |-> h.row.contribution_amount,
   contribution_hash |-> make_contribution_hash(h)]

final_contribs(hashed, id_map) ==
  drop_duplicates([i \in 1..Len(hashed) |-> final_contribution(hashed[i], id_map)],
                  "contribution_hash")

(***************************************************************************)
(* The store (db_schema.py 39-92) and psycopg2's execute_values.           *)
(* A table is the set of its rows.  `db` holds what is committed, `work`   *)
(* what the open connection sees (db plus its uncommitted statements).     *)
(***************************************************************************)
\* The four tables and, for the two SERIAL columns, the last value their
\* sequence has issued.  A sequence is not transactional: a value that was
\* issued stays issued when the row is skipped or the transaction rolled
\* back.
EmptyStore ==
  [candidates |-> {}, committees |-> {}, contributors |-> {}, contributions |-> {},
   seq |-> [contributors |-> 0, contributions |-> 0]]

\* The rows of a store, without its sequences.
Rows(store) ==
  [t \in {"candidates", "committees", "contributors", "contributions"} |-> store[t]]

KeysOf(table, key) == {r[key] : r \in table}

Range(f) == {f[i] : i \in DOMAIN f}

Min(a, b) == IF a < b THEN a ELSE b
Max(a, b) == IF a > b THEN a ELSE b

\* nextval() of a SERIAL column's sequence: the store with the value issued.
nextval(store, table_name) == [store EXCEPT !.seq[table_name] = @ + 1]

\* An INSERT without a conflict clause that the store does not refuse.
upsert_statement_append(store, table_name, pk, rows) ==
  [ok |-> TRUE, err |-> "none",
   store |-> [store EXCEPT ![table_name] = @ \cup Range(rows)]]

\* ON CONFLICT (pk) DO NOTHING in the place of DO UPDATE: a stored key keeps
\* its stored row.
upsert_statement_keep(store, table_name, pk, rows) ==
  [ok |-> TRUE, err |-> "none",
   store |-> [store EXCEPT ![table_name] =
                @ \cup {r \in Range(rows) : r[pk] \notin KeysOf(@, pk)}]]

\* The rows of one upsert statement, in order: NOT NULL is checked when the
\* row is formed, then the conflict is arbitrated; a row whose key an
\* earlier row of the statement has written is refused (the command cannot
\* affect a row a second time).  seen holds the keys written so far.
RECURSIVE upsert_rows(_, _, _, _, _)
upsert_rows(store, table_name, pk, rows, seen) ==
  IF rows = <<>> THEN [ok |-> TRUE, err |-> "none", store |-> store]
  ELSE LET r == Head(rows)
       IN IF r.name = NoneStr
          THEN [ok |-> FALSE, err |-> "NotNullViolation", store |-> store]
          ELSE IF r[pk] \in seen
          THEN [ok |-> FALSE, err |-> "CardinalityViolation", store |-> store]
          ELSE upsert_rows(
                 [store EXCEPT ![table_name] = {x \in @ : x[pk] # r[pk]} \cup {r}],
                 table_name, pk, Tail(rows), seen \cup {r[pk]})

\* INSERT ... VALUES rows ON CONFLICT (pk) DO UPDATE SET col = EXCLUDED.col
\* for every other column (etl.py 96-109), as one statement.
upsert_statement(store, table_name, pk, rows) ==
  upsert_rows(store, table_name, pk, rows, {})

\* The amount as the NUMERIC(12, 2) column holds it: 250 and 250.0 are one
\* value, None is NULL, NaN is NaN.
numeric(a) == IF a.kind = "float" THEN IntAmount(a.v) ELSE a

\* A contributions insert that replaces the stored row of a stored hash by the
\* incoming one under a new surrogate id.
RECURSIVE insert_contributions_replace(_, _)
insert_contributions_replace(store, rows) ==
  IF rows = <<>> THEN [ok |-> TRUE, err |-> "none", store |-> store]
  ELSE LET r == Head(rows)
           s1 == nextval(store, "contributions")
       IN insert_contributions_replace(
            [s1 EXCEPT !.contributions =
               {x \in @ : x.contribution_hash # r.contribution_hash} \cup
               {[contribution_id |-> s1.seq.contributions,
                 committee_id |-> r.committee_id,
                 contributor_id |-> r.contributor_id,
                 contribution_date |-> r.contribution_date,
                 contribution_amount |-> numeric(r.contribution_amount),
                 contribution_hash |-> r.contribution_hash]}],
            Tail(rows))

\* The rows of one contributions insert, in order: the DEFAULT of
\* contribution_id takes the next value of the sequence, then the conflict
\* on contribution_hash is arbitrated: a row whose hash is stored (or was
\* inserted by an earlier row) is skipped, and the value it took is gone.
RECURSIVE insert_contribution_rows(_, _)
insert_contribution_rows(store, rows) ==
  IF rows = <<>> THEN [ok |-> TRUE, err |-> "none", store |-> store]
  ELSE LET r == Head(rows)
           s1 == nextval(store, "contributions")
       IN IF r.contribution_hash \in KeysOf(store.contributions, "contribution_hash")
          THEN insert_contribution_rows(s1, Tail(rows))
          ELSE insert_contribution_rows(
                 [s1 EXCEPT !.contributions = @ \cup
                    {[contribution_id |-> s1.seq.contributions,
                      committee_id |-> r.committee_id,
                      contributor_id |-> r.contributor_id,
                      contribution_date |-> r.contribution_date,
                      contribution_amount |-> numeric(r.contribution_amount),
                      contribution_hash |-> r.contribution_hash]}],
                 Tail(rows))

\* INSERT INTO contributions ... ON CONFLICT (contribution_hash) DO NOTHING
\* (etl.py 88-91) as one statement.  Its values are constants cast to the
\* column types when the statement is planned, before any row is executed:
\* a NaN contributor_id is no integer.  Then its rows are executed in
\* order, and at the end of the statement the two references of every
\* inserted row must resolve.
insert_contributions(store, rows) ==
  IF \E i \in 1..Len(rows) : rows[i].contributor_id = NoneInt
  THEN [ok |-> FALSE, err |-> "DataError", store |-> store]
  ELSE LET r == insert_contribution_rows(store, rows)
       IN IF \E x \in r.store.contributions \ store.contributions :
               \/ (x.committee_id # NoneSeq
                   /\ x.committee_id \notin KeysOf(store.committees, "committee_id"))
               \/ x.contributor_id \notin KeysOf(store.contributors, "contributor_id")
          THEN [ok |-> FALSE, err |-> "ForeignKeyViolation", store |-> r.store]
          ELSE r

\* The query load_df_to_db builds for a table (etl.py 87-109): one %s.
load_query(table_name, pk) ==
  IF table_name = "contributions"
  THEN [table |-> table_name, action |-> "DO NOTHING", conflict |-> "contribution_hash",
        placeholders |-> 1]
  ELSE [table |-> table_name, action |-> "DO UPDATE", conflict |-> pk,
        placeholders |-> 1]

\* The query of the contributor upsert (etl.py 192-196): values_sql is one
\* placeholder per inserted column.
insert_cols ==
  <<"name", "city", "state", "zip_code", "occupation", "employer", "contributor_hash">>

insert_query ==
  [table |-> "contributors", action |-> "DO NOTHING", conflict |-> "contributor_hash",
   placeholders |-> Len(insert_cols)]

\* One statement of a query of load_df_to_db on its rows.  (The query of
\* the contributor upsert never becomes a statement: execute_values
\* refuses it first.)
statement(store, q, rows) ==
  IF q.action = "DO UPDATE" THEN upsert_statement(store, q.table, q.conflict, rows)
  ELSE insert_contributions(store, rows)

\* etl.py 80: chunk_size = 1000, and execute_values' page_size = 100: a
\* chunk is sent as consecutive statements of page_size rows.  Both are
\* scaled down, chunk_size staying a multiple of page_size, so that a
\* batch of a few rows spans chunks and a statement holds several rows.
chunk_size == 2
page_size == 2

\* execute_values splits the query on its single %s placeholder before it
\* sends anything: a query with another number of them raises ValueError.
split_sql_ok(placeholders) == placeholders = 1

RECURSIVE run_pages(_, _, _)
run_pages(store, q, rows) ==
  IF rows = <<>> THEN [ok |-> TRUE, err |-> "none", store |-> store]
  ELSE LET n == Min(page_size, Len(rows))
           r == statement(store, q, SubSeq(rows, 1, n))
       IN IF ~r.ok THEN r
          ELSE run_pages(r.store, q, SubSeq(rows, n + 1, Len(rows)))

execute_values(store, q, rows) ==
  IF ~split_sql_ok(q.placeholders)
  THEN [ok |-> FALSE, err |-> "ValueError", store |-> store]
  ELSE run_pages(store, q, rows)

\* The values the sequences may hold when the connection is lost during
\* execute_values: the server has executed some of the statements and, of
\* the next one, some of the rows (none when its planning fails).
RECURSIVE interrupted_seqs(_, _, _)
interrupted_seqs(store, q, rows) ==
  IF rows = <<>> THEN {store.seq}
  ELSE LET n == Min(page_size, Len(rows))
           r == statement(store, q, SubSeq(rows, 1, n))
       IN {store.seq}
          \cup (IF r.err = "DataError" THEN {}
                ELSE {statement(store, q, SubSeq(rows, 1, k)).store.seq : k \in 1..n})
          \cup (IF r.ok THEN interrupted_seqs(r.store, q, SubSeq(rows, n + 1, Len(rows)))
                ELSE {})

(***************************************************************************)
(* etl.py 71-114: load_df_to_db.                                           *)
(***************************************************************************)
IdleLoad ==
  [phase |-> "idle", table |-> "", pk |-> "", tuples |-> <<>>, i |-> 0,
   err |-> "none", before |-> EmptyStore]

\* Lines 73-80: an empty frame returns at once.
load_start(committed, table_name, pk, df) ==
  [IdleLoad EXCEPT !.phase = IF df = <<>> THEN "returned" ELSE "chunks",
                   !.table = table_name, !.pk = pk, !.tuples = df,
                   !.before = committed]

\* A loader that commits each chunk as it is applied.
committed_per_chunk(committed, applied) == applied

\* Lines 92-93 and 110-111 hold no commit: what is committed after a chunk
\* has been applied is what was committed before.
committed_after_chunk(committed, applied) == [committed EXCEPT !.seq = applied.seq]

\* One turn of the chunk loop: execute_values on tuples[i:i+chunk_size].
\* The store may fail the call (connection lost, server error).
LoadChunk ==
  /\ ld.phase = "chunks"
  /\ ld.i < Len(ld.tuples)
  /\ \E fault \in BOOLEAN :
       /\ fault => faults < MaxFaults
       /\ faults' = IF fault THEN faults + 1 ELSE faults
       /\ LET chunk == SubSeq(ld.tuples, ld.i + 1, Min(ld.i + chunk_size, Len(ld.tuples)))
              r == execute_values(work, load_query(ld.table, ld.pk), chunk)
          IN IF fault
             THEN /\ ld' = [ld EXCEPT !.phase = "raised", !.err = "OperationalError"]
                  /\ \E issued \in interrupted_seqs(work, load_query(ld.table, ld.pk), chunk) :
                       /\ work' = [work EXCEPT !.seq = issued]
                       /\ db' = [db EXCEPT !.seq = issued]
             ELSE IF ~r.ok
             THEN /\ ld' = [ld EXCEPT !.phase = "raised", !.err = r.err]
                  /\ work' = [work EXCEPT !.seq = r.store.seq]
                  /\ db' = [db EXCEPT !.seq = r.store.seq]
             ELSE /\ ld' = [ld EXCEPT !.i = @ + chunk_size]
                  /\ work' = r.store
                  /\ db' = committed_after_chunk(db, r.store)
  /\ UNCHANGED <<call, paced, driver, api_key, infer_string, endpoint, upstream, pg, requests, run, etlLocals>>

\* Line 113: conn.commit() after the last chunk.
LoadCommit ==
  /\ ld.phase = "chunks"
  /\ ld.i >= Len(ld.tuples)
  /\ db' = work
  /\ ld' = [ld EXCEPT !.phase = "returned"]
  /\ UNCHANGED <<call, paced, driver, api_key, infer_string, endpoint, upstream, pg, requests, work, faults, run, etlLocals>>

(***************************************************************************)
(* The data the model runs on.                                             *)
(***************************************************************************)
Candidate(id, name, party) ==
  [candidate_id |-> id, name |-> name, party |-> party, state |-> "CA",
   office |-> "P", election_years |-> <<2024>>]

Committee(id, treasurer) ==
  [committee_id |-> id, name |-> "CMTE", city |-> "X", state |-> "CA",
   treasurer_name |-> treasurer, committee_type |-> "P"]

Contribution(cid, name, city, amount) ==
  [committee_id |-> cid, contributor_name |-> name, contributor_city |-> city,
   contributor_state |-> text(<<"A">>), contributor_zip |-> text(<<"1">>),
   contribution_receipt_date |-> text(<<"d">>), contribution_receipt_amount |-> amount,
   contributor_occupation |-> NoneSeq, contributor_employer |-> <<>>]

CmteA == text(<<"C", "1">>)
CmteB == text(<<"C", "2">>)

a1 == Candidate("P1", "ALPHA", "DEM")
a1b == Candidate("P1", "ALPHA", "REP")
a2 == Candidate("P2", "BETA", "DEM")

m1 == Committee(CmteA, "T1")
m1b == Committee(CmteA, "T2")
m2 == Committee(CmteB, "T1")

\* kA and kA2 are one contribution of one contributor, spelled with other
\* case and whitespace (and None for '') the second time.
kA == Contribution(CmteA, text(<<"A", " ", "B">>), text(<<"B">>), FloatAmount(5))
kA2 ==
  [Contribution(CmteA, <<32, 97, 9, 32, 98>>, text(<<"b", " ">>), FloatAmount(5))
     EXCEPT !.contributor_state = text(<<"a">>), !.contributor_occupation = <<>>,
            !.contributor_employer = NoneSeq]
kB == Contribution(CmteB, text(<<"b">>), text(<<"B">>), FloatAmount(7))

\* A contribution of a contributor no store holds.
kC == Contribution(CmteA, text(<<"J">>), text(<<"B">>), NoneAmount)

StoredContributor(id, c) ==
  LET row == transform_contribution(c)
  IN [contributor_id |-> id, name |-> row.contributor_name,
      city |-> row.contributor_city, state |-> row.contributor_state,
      zip_code |-> row.contributor_zip_code,
      occupation |-> row.contributor_occupation,
      employer |-> row.contributor_employer,
      contributor_hash |-> make_contributor_hash(row)]

\* The store a run or a load is pointed at: freshly migrated, or holding
\* the rows of earlier loads (each satisfying the schema's constraints).
SeededStore ==
  [candidates |-> {transform_candidate(a1b)},
   committees |-> {m1b},
   contributors |-> {StoredContributor(1, kA2), StoredContributor(2, kB)},
   contributions |-> {},
   seq |-> [contributors |-> 2, contributions |-> 0]]

InitialStores == {EmptyStore, SeededStore}

\* SELECT contributor_id, contributor_hash FROM contributors WHERE
\* contributor_hash = ANY(hashes) (etl.py 204-206), as a dict.
contributor_id_map(store, hashes) ==
  [h \in KeysOf(store.contributors, "contributor_hash") \cap hashes |->
     (CHOOSE r \in store.contributors : r.contributor_hash = h).contributor_id]

BatchesOf(pool) == UNION {[1..n -> pool] : n \in 0..MaxBatch}

\* A contributions frame as etl.py 209-215 and 246 prepare it from fetched
\* records, before the batch's own duplicates are dropped, under the
\* installed pandas (str_inferred: pandas >= 3).
ContributionRows(store, raws, str_inferred) ==
  LET hashed == with_contributor_hash(transform_contributions_to_df(raws, str_inferred))
      ids == contributor_id_map(store, {hashed[i].contributor_hash : i \in 1..Len(hashed)})
  IN [i \in 1..Len(hashed) |-> final_contribution(hashed[i], ids)]

LoaderInputs(str_inferred) ==
  {<<"candidates", "candidate_id", transform_candidates_to_df(b)>> :
      b \in BatchesOf({a1, a1b, a2})}
  \cup
  {<<"committees", "committee_id", b>> : b \in BatchesOf({m1, m1b, m2})}
  \cup
  {<<"contributions", "contribution_id", ContributionRows(SeededStore, b, str_inferred)>> :
      b \in BatchesOf({kA, kA2, kB, kC})}

\* No function of the call driver is being called.
NoCall ==
  [op |-> "none", s |-> <<>>, n |-> 0, row |-> <<>>, row2 |-> <<>>, out |-> <<>>,
   out2 |-> <<>>, again |-> <<>>, workers |-> 0, phase |-> "none"]

\* The __main__ block's variables when the process is not a run of etl.py.
NoEtl ==
  /\ paced = TRUE
  /\ call = NoCall
  /\ pc = "none"
  /\ db_conn = "None"
  /\ session = "none"
  /\ candidates_df = <<>>
  /\ units = <<>>
  /\ job = [w \in Workers |-> 0]
  /\ contrib_dfs = <<>>
  /\ all_committee_ids = {}
  /\ all_contributions_df = <<>>
  /\ error = "none"
  /\ exit_status = "none"
  /\ history = <<>>

(***************************************************************************)
(* The loader driver: calls of load_df_to_db, each on a connection that    *)
(* the caller closes afterwards (an uncommitted transaction is rolled      *)
(* back).                                                                  *)
(***************************************************************************)
InitLoader ==
  /\ driver = "loader"
  /\ api_key = NoneStr
  /\ infer_string \in BOOLEAN
  /\ endpoint = ""
  /\ upstream = <<>>
  /\ pg = [t \in Threads |-> IdlePg]
  /\ requests = 0
  /\ db \in InitialStores
  /\ work = db
  /\ ld = IdleLoad
  /\ faults = 0
  /\ run = 1
  /\ NoEtl

LoaderCall ==
  /\ driver = "loader"
  /\ ld.phase = "idle"
  /\ \E in \in LoaderInputs(infer_string) : ld' = load_start(db, in[1], in[2], in[3])
  /\ UNCHANGED <<call, paced, driver, api_key, infer_string, endpoint, upstream, pg, requests, db, work, faults, run, etlLocals>>

LoaderClose ==
  /\ driver = "loader"
  /\ ld.phase \in {"returned", "raised"}
  /\ run < MaxRuns
  /\ work' = db
  /\ ld' = IdleLoad
  /\ run' = run + 1
  /\ faults' = 0
  /\ UNCHANGED <<call, paced, driver, api_key, infer_string, endpoint, upstream, pg, requests, db, etlLocals>>

(***************************************************************************)
(* The api driver: one call of a getter with a credential against an       *)
(* upstream.                                                               *)
(***************************************************************************)
Endpoints == {"candidates", "committees", "schedule_a"}
ApiKeys == {NoneStr, "", "KEY"}

\* The upstreams a getter is run against: the envelopes of the interface
\* (schedule_a's cursor may carry last_contribution_receipt_date on any of
\* its pages), and for schedule_a those with one broken envelope.
Upstreams(ep) ==
  UNION {
    {Pages(n, dated, lastCursor, <<0, "none">>) :
       dated \in (IF ep = "schedule_a" THEN SUBSET (1..n) ELSE {{}}),
       lastCursor \in BOOLEAN}
    \cup
    (IF ep = "schedule_a"
     THEN {Pages(n, 1..n, TRUE, defect) : defect \in (1..n) \X DefectKinds}
     ELSE {})
    : n \in 1..MaxPages}

InitApi ==
  /\ driver = "api"
  /\ api_key \in ApiKeys
  /\ infer_string = FALSE
  /\ endpoint \in Endpoints
  /\ \E ps \in Upstreams(endpoint) : upstream = [r \in {endpoint} |-> ps]
  /\ pg = [t \in Threads |-> IdlePg]
  /\ requests = 0
  /\ db = EmptyStore
  /\ work = EmptyStore
  /\ ld = IdleLoad
  /\ faults = 0
  /\ run = 1
  /\ NoEtl

ApiCall ==
  /\ driver = "api"
  /\ pg["main"].pc = "idle"
  /\ pg' = [pg EXCEPT !["main"] = get_resource(api_key, endpoint)]
  /\ UNCHANGED <<call, paced, driver, api_key, infer_string, endpoint, upstream, requests, db, work, ld, faults, run, etlLocals>>

(***************************************************************************)
(* etl.py 128-255: the __main__ block, one run of the pipeline per         *)
(* process.                                                                *)
(***************************************************************************)
\* A page envelope of the interface carrying the given records.
Envelope(results, k, n) == [WellFormed(k, n, {}, FALSE) EXCEPT !.results = results]

Feed(pages) == [k \in 1..Len(pages) |-> Envelope(pages[k], k, Len(pages))]

CandidateFeeds ==
  {Feed(<<<<>>>>), Feed(<<<<a1, a2>>>>), Feed(<<<<a1>>, <<a2>>>>), Feed(<<<<a1, a1b>>>>)}

AlphaFeeds == {Feed(<<<<>>>>), Feed(<<<<kA>>>>), Feed(<<<<kA>>, <<kA2>>>>)}
BetaFeeds == {Feed(<<<<>>>>), Feed(<<<<kA2, kB>>>>)}

EtlUpstreams ==
  {[r \in {"candidates", "ALPHA", "BETA"} |->
      IF r = "candidates" THEN c ELSE IF r = "ALPHA" THEN a ELSE b] :
   c \in CandidateFeeds, a \in AlphaFeeds, b \in BetaFeeds}

FreshLocals ==
  /\ db_conn = "None"
  /\ session = "none"
  /\ candidates_df = <<>>
  /\ units = <<>>
  /\ job = [w \in Workers |-> 0]
  /\ contrib_dfs = <<>>
  /\ all_committee_ids = {}
  /\ all_contributions_df = <<>>
  /\ error = "none"
  /\ exit_status = "none"

InitEtl ==
  /\ driver = "etl"
  /\ api_key \in ApiKeys
  /\ infer_string \in BOOLEAN
  /\ endpoint = ""
  /\ upstream \in EtlUpstreams
  /\ pg = [t \in Threads |-> IdlePg]
  /\ requests = 0
  /\ db \in InitialStores
  /\ work = db
  /\ ld = IdleLoad
  /\ faults = 0
  /\ run = 1
  /\ pc = "start"
  /\ history = <<>>
  /\ paced = TRUE
  /\ call = NoCall
  /\ FreshLocals

\* A worker count with the floor but without the ceiling.
max_workers_unbounded(n) == Max(2, n \div 10)

\* Lines 146 and 225 (the same expression on the number of targets).
max_workers(n) == Min(8, Max(2, IF n \div 10 = 0 THEN 2 ELSE n \div 10))

\* Lines 249-250: what the handler of the try block does with the error.
except_clause(e) == "logged"

\* Lines 129-133: the session, then the connection (which may fail), then
\* the credential is read from the environment.
EtlStart ==
  /\ driver = "etl" /\ pc = "start"
  /\ session' = "open"
  /\ history' = Append(history, [before |-> db, after |-> db, error |-> "running"])
  /\ \/ /\ db_conn' = "open"
        /\ pc' = "get_candidates"
        /\ UNCHANGED <<error, faults>>
     \/ /\ faults < MaxFaults
        /\ faults' = faults + 1
        /\ db_conn' = "None"
        /\ error' = "OperationalError"
        /\ pc' = "except"
  /\ UNCHANGED <<call, paced, driver, api_key, infer_string, endpoint, upstream, pg, requests, db, work, ld, run,
                 candidates_df, units, job, contrib_dfs, all_committee_ids,
                 all_contributions_df, exit_status>>

\* Line 137: get_candidates on the main thread.
GetCandidates ==
  /\ driver = "etl" /\ pc = "get_candidates"
  /\ pg' = [pg EXCEPT !["main"] = get_resource(api_key, "candidates")]
  /\ pc' = "candidates_wait"
  /\ UNCHANGED <<call, paced, driver, api_key, infer_string, endpoint, upstream, requests, db, work, ld, faults, run,
                 db_conn, session, candidates_df, units, job, contrib_dfs,
                 all_committee_ids, all_contributions_df, error, exit_status, history>>

\* Lines 137-140: the getter has returned or raised; a non-empty frame is
\* handed to load_df_to_db.
CandidatesFetched ==
  /\ driver = "etl" /\ pc = "candidates_wait"
  /\ pg["main"].pc \in {"returned", "raised"}
  /\ pg' = [pg EXCEPT !["main"] = IdlePg]
  /\ IF pg["main"].pc = "raised"
     THEN /\ error' = pg["main"].err
          /\ pc' = "except"
          /\ UNCHANGED <<candidates_df, ld>>
     ELSE LET df == transform_candidates_to_df(pg["main"].all_results)
          IN /\ candidates_df' = df
             /\ error' = error
             /\ IF df # <<>>
                THEN /\ ld' = load_start(db, "candidates", "candidate_id", df)
                     /\ pc' = "load_candidates"
                ELSE /\ ld' = ld
                     /\ pc' = "submit"
  /\ UNCHANGED <<call, paced, driver, api_key, infer_string, endpoint, upstream, requests, db, work, faults, run,
                 db_conn, session, units, job, contrib_dfs, all_committee_ids,
                 all_contributions_df, exit_status, history>>

\* Line 140 has returned or raised.
CandidatesLoaded ==
  /\ driver = "etl" /\ pc = "load_candidates"
  /\ ld.phase \in {"returned", "raised"}
  /\ ld' = IdleLoad
  /\ IF ld.phase = "raised"
     THEN error' = ld.err /\ pc' = "except"
     ELSE error' = error /\ pc' = "submit"
  /\ UNCHANGED <<call, paced, driver, api_key, infer_string, endpoint, upstream, pg, requests, db, work, faults, run,
                 db_conn, session, candidates_df, units, job, contrib_dfs,
                 all_committee_ids, all_contributions_df, exit_status, history>>

\* Lines 144-149: executor.submit is called once per candidate name, in the
\* order of the frame; a submitted future is queued at once, and the pool
\* may start it while the later names are still being submitted.  An empty
\* DataFrame has no column 'name': candidates_df['name'] raises KeyError.
Submit ==
  /\ driver = "etl" /\ pc = "submit"
  /\ IF candidates_df = <<>>
     THEN /\ error' = "KeyError"
          /\ pc' = "except"
          /\ units' = units
     ELSE /\ Len(units) < Len(candidates_df)
          /\ units' = Append(units,
                         [name |-> candidates_df[Len(units) + 1].name, st |-> "queued",
                          df |-> <<>>, handled |-> FALSE])
          /\ pc' = IF Len(units) + 1 = Len(candidates_df) THEN "as_completed" ELSE "submit"
          /\ error' = error
  /\ UNCHANGED <<call, paced, driver, api_key, infer_string, endpoint, upstream, pg, requests, db, work, ld, faults,
                 run, db_conn, session, candidates_df, job, contrib_dfs,
                 all_committee_ids, all_contributions_df, exit_status, history>>

Queued == {i \in 1..Len(units) : units[i].st = "queued"}

\* A free worker of the pool takes the oldest queued unit and enters
\* fetch_contributions_for_candidate (lines 116-119).
WorkerTake(w) ==
  /\ driver = "etl" /\ pc \in {"submit", "as_completed"}
  /\ job[w] = 0
  /\ Cardinality({v \in Workers : job[v] # 0}) < max_workers(Len(candidates_df))
  /\ Queued # {}
  /\ LET i == CHOOSE i \in Queued : \A j \in Queued : i <= j
     IN /\ job' = [job EXCEPT ![w] = i]
        /\ units' = [units EXCEPT ![i].st = "running"]
        /\ pg' = [pg EXCEPT ![w] = get_resource(api_key, units[i].name)]
  /\ UNCHANGED <<call, paced, driver, api_key, infer_string, endpoint, upstream, requests, db, work, ld, faults, run,
                 pc, db_conn, session, candidates_df, contrib_dfs, all_committee_ids,
                 all_contributions_df, error, exit_status, history>>

\* The unit's function returns its frame (line 120) or raises; either way
\* the future is completed and the worker is free again.
WorkerFinish(w) ==
  /\ driver = "etl" /\ job[w] # 0
  /\ pg[w].pc \in {"returned", "raised"}
  /\ IF pg[w].pc = "raised"
     THEN units' = [units EXCEPT ![job[w]].st = "failed"]
     ELSE \E df \in {transform_contributions_to_df(pg[w].all_results, infer_string)} :
            units' = [units EXCEPT ![job[w]].st = "done", ![job[w]].df = df]
  /\ job' = [job EXCEPT ![w] = 0]
  /\ pg' = [pg EXCEPT ![w] = IdlePg]
  /\ UNCHANGED <<call, paced, driver, api_key, infer_string, endpoint, upstream, requests, db, work, ld, faults, run,
                 pc, db_conn, session, candidates_df, contrib_dfs, all_committee_ids,
                 all_contributions_df, error, exit_status, history>>

\* An unsynchronised writer that stores the list it builds over the list
\* another writer has extended meanwhile: the earlier entries are lost.
list_overwrite(dfs, df) == <<df>>

\* Line 158: contrib_dfs.append(contributions_df), in the main thread.
list_append(dfs, df) == Append(dfs, df)

\* Lines 150-160: the main thread takes a completed future, in completion
\* order; a failed one is logged and skipped.  dropna() leaves out None and
\* NaN.
HandleCompleted ==
  /\ driver = "etl" /\ pc = "as_completed"
  /\ \E i \in 1..Len(units) :
       /\ units[i].st \in {"done", "failed"} /\ ~units[i].handled
       /\ units' = [units EXCEPT ![i].handled = TRUE]
       /\ IF units[i].st = "done" /\ units[i].df # <<>>
          THEN /\ contrib_dfs' = list_append(contrib_dfs, units[i].df)
               /\ all_committee_ids' = all_committee_ids \cup
                    ({units[i].df[j].committee_id : j \in 1..Len(units[i].df)}
                       \ {NoneSeq, NaNSeq})
          ELSE UNCHANGED <<contrib_dfs, all_committee_ids>>
  /\ UNCHANGED <<call, paced, driver, api_key, infer_string, endpoint, upstream, pg, requests, db, work, ld, faults,
                 run, pc, db_conn, session, candidates_df, job, all_contributions_df,
                 error, exit_status, history>>

\* A merge that keeps the first frame only.
concat_first(dfs, all_na_ignored) == IF dfs = <<>> THEN <<>> ELSE Head(dfs)

\* The rows of the frames, one frame after the other.
RECURSIVE concat_rows(_)
concat_rows(dfs) == IF dfs = <<>> THEN <<>> ELSE Head(dfs) \o concat_rows(Tail(dfs))

\* pd.concat(contrib_dfs, ignore_index=True) (line 162): the rows of the
\* frames, the amount column with one dtype for all of them.  Frames of one
\* dtype keep it; int64 and float64 frames give float64.  With a frame whose
\* amounts are all None (an object column) among numeric ones the result
\* depends on the installed pandas (the repository pins none): either the
\* all-NA column is ignored and the result is float64 (None becomes NaN, an
\* int the float of its value), or the result is an object column holding
\* every value as its frame had it.  A text column is an object column in
\* every frame, or (with infer_string) a str column in some and an object
\* column of None in others, which concatenate to an object column: its
\* values stay as their frames had them.
concat(dfs, all_na_ignored) ==
  LET rows == concat_rows(dfs)
      dtype(df) ==
        LET kinds == {df[i].contribution_amount.kind : i \in 1..Len(df)}
        IN IF kinds \subseteq {"None"} THEN "object"
           ELSE IF kinds \subseteq {"int"} THEN "int64" ELSE "float64"
      dtypes == {dtype(dfs[k]) : k \in 1..Len(dfs)}
  IN IF Cardinality(dtypes) <= 1 \/ ("object" \in dtypes /\ ~all_na_ignored)
     THEN rows
     ELSE [i \in 1..Len(rows) |->
             [rows[i] EXCEPT !.contribution_amount = amount_in_column(@, {"float"})]]

\* A loop over the futures that is left after the first completed one.
as_completed_first(us) == \E i \in 1..Len(us) : us[i].handled

\* Lines 148-160: the for loop over as_completed ends when every submitted
\* future has been yielded and handled, and the with block of the executor
\* is left when every worker has finished.
as_completed_exhausted(us) == \A i \in 1..Len(us) : us[i].handled

\* Lines 162-178: every future has been handled; the frames are
\* concatenated and, if there are rows, the identity hash is attached.
\* When make_contributor_hash raises for a row, the frame is left without
\* the contributor_hash column and the try block is left.
Merge ==
  /\ driver = "etl" /\ pc = "as_completed"
  /\ as_completed_exhausted(units)
  /\ \E df \in {concat(contrib_dfs, all_na_ignored) : all_na_ignored \in BOOLEAN} :
     \E hashed \in {with_contributor_hash(df)} :
       IF \E i \in 1..Len(hashed) : hashed[i].contributor_hash = UnicodeEncodeError
       THEN /\ all_contributions_df' =
                 [i \in 1..Len(hashed) |-> [hashed[i] EXCEPT !.contributor_hash = NoneSeq]]
            /\ error' = "UnicodeEncodeError"
            /\ pc' = "except"
       ELSE /\ all_contributions_df' = hashed
            /\ error' = error
            /\ pc' = IF hashed # <<>> THEN "upsert_contributors" ELSE "stage3"
  /\ UNCHANGED <<call, paced, driver, api_key, infer_string, endpoint, upstream, pg, requests, db, work, ld, faults,
                 run, db_conn, session, candidates_df, units, job, contrib_dfs,
                 all_committee_ids, exit_status, history>>

\* Lines 181-201: the contributor rows (one per identity hash) are sent
\* with execute_values and committed.  insert_query carries one %s per
\* column, which execute_values refuses: for every non-empty batch the call
\* raises ValueError and the try block is left.  Lines 203-218 and, with
\* data, lines 220-247 (the id map, the contribution hash, the committee
\* fan-out and the two loads) are therefore never executed by a run.
UpsertContributors ==
  /\ driver = "etl" /\ pc = "upsert_contributors"
  /\ LET r == execute_values(work, insert_query, contributors_df(all_contributions_df))
     IN IF ~r.ok
        THEN /\ error' = r.err
             /\ pc' = "except"
             /\ UNCHANGED <<db, work>>
        ELSE /\ work' = r.store
             /\ db' = r.store
             /\ pc' = "stage3"
             /\ error' = error
  /\ UNCHANGED <<call, paced, driver, api_key, infer_string, endpoint, upstream, pg, requests, ld, faults, run,
                 db_conn, session, candidates_df, units, job, contrib_dfs,
                 all_committee_ids, all_contributions_df, exit_status, history>>

\* Lines 220-247 when no contribution was fetched: there is no committee
\* to fetch and nothing to load, and the try block is left normally.
NothingFetched ==
  /\ driver = "etl" /\ pc = "stage3"
  /\ all_committee_ids = {} /\ all_contributions_df = <<>>
  /\ pc' = "finally"
  /\ UNCHANGED <<call, paced, driver, api_key, infer_string, endpoint, upstream, pg, requests, db, work, ld, faults,
                 run, db_conn, session, candidates_df, units, job, contrib_dfs,
                 all_committee_ids, all_contributions_df, error, exit_status, history>>

\* Lines 249-250.
Except ==
  /\ driver = "etl" /\ pc = "except"
  /\ exit_status' = except_clause(error)
  /\ pc' = "finally"
  /\ UNCHANGED <<call, paced, driver, api_key, infer_string, endpoint, upstream, pg, requests, db, work, ld, faults,
                 run, db_conn, session, candidates_df, units, job, contrib_dfs,
                 all_committee_ids, all_contributions_df, error, history>>

\* A finally block that leaves the connection as it is.
close_skipped(conn) == conn

\* Lines 252-253: if db_conn: db_conn.close()
close_if_open(conn) == IF conn = "open" THEN "closed" ELSE conn

\* Lines 251-255: the connection is closed if there is one (what was not
\* committed is rolled back), the session is closed, the process ends.
Finally ==
  /\ driver = "etl" /\ pc = "finally"
  /\ db_conn' = close_if_open(db_conn)
  /\ work' = db
  /\ session' = "closed"
  /\ exit_status' = IF exit_status = "reraise" THEN "raised" ELSE "returned"
  /\ history' = [history EXCEPT ![run] = [@ EXCEPT !.after = db, !.error = error]]
  /\ pc' = "ended"
  /\ UNCHANGED <<call, paced, driver, api_key, infer_string, endpoint, upstream, pg, requests, db, ld, faults, run,
                 candidates_df, units, job, contrib_dfs, all_committee_ids,
                 all_contributions_df, error>>

\* The operator starts the pipeline again, against the same upstream and
\* the store the earlier runs left.
NextRun ==
  /\ driver = "etl" /\ pc = "ended"
  /\ run < MaxRuns
  /\ run' = run + 1
  /\ faults' = 0
  /\ requests' = 0
  /\ pc' = "start"
  /\ db_conn' = "None"
  /\ session' = "none"
  /\ candidates_df' = <<>>
  /\ units' = <<>>
  /\ job' = [w \in Workers |-> 0]
  /\ contrib_dfs' = <<>>
  /\ all_committee_ids' = {}
  /\ all_contributions_df' = <<>>
  /\ error' = "none"
  /\ exit_status' = "none"
  /\ paced' = TRUE
  /\ UNCHANGED <<call, driver, api_key, infer_string, endpoint, upstream, pg, db, work, ld, history>>

(***************************************************************************)
(* The call driver: one call of a function of etl.py on an argument.       *)
(***************************************************************************)
\* The characters of the arguments tried: space, \n, 'J' and 'b'.
Chars == {32, 10, 74, 98}

\* The argument of the repository's test (tests/test_transforms.py line 6).
JohnDoe == text(<<" ", " ", "J", "O", "H", "N", " ", " ", "D", "O", "E", " ">>)

\* A name beyond ASCII: 'JOS' and E acute (201), an em space, a no-break
\* space, two Greek words in capitals (the first ending in a sigma, the
\* second starting and ending with one), a space and a name with the
\* dotted capital I (304), whose lower-case form is longer than the name.
JoseOdos ==
  <<74, 79, 83, 201, 8195, 160, 927, 916, 908, 931, 32, 931, 927, 934, 908, 931,
    32, 304, 90, 77, 304, 82>>

Strings == UNION {[1..k -> Chars] : k \in 0..MaxLen} \cup {JohnDoe, JoseOdos}

\* Rows as make_contribution_hash reads them (lines 211-213): the three
\* contribution columns and the contributor_hash column.  One committee_id
\* ends in an unpaired surrogate (U+D800).
HashRows ==
  [contributor_hash : {make_contributor_hash(transform_contribution(kA)),
                       make_contributor_hash(transform_contribution(kB))},
   row : [committee_id : {CmteA, NoneSeq, <<67, 55296>>},
          contribution_date : {text(<<"d">>), NoneSeq, NaNSeq},
          contribution_amount : {NoneAmount, NaN, IntAmount(0), FloatAmount(0),
                                 IntAmount(250), FloatAmount(250)}]]

\* Rows as make_contributor_hash reads them (lines 166-176): the six
\* contributor columns; the upstream's text may hold the '|' character or
\* an unpaired surrogate (U+DE00).
ContributorRows ==
  [contributor_name : {text(<<"a">>), text(<<"a", "|", "b">>), <<97, 56832>>},
   contributor_city : {text(<<"b">>), text(<<"c">>)},
   contributor_state : {text(<<"c">>), <<>>},
   contributor_zip_code : {<<>>},
   contributor_occupation : {NoneSeq, NaNSeq},
   contributor_employer : {<<>>, text(<<"|">>)}]

InitCall ==
  /\ driver = "call"
  /\ api_key = NoneStr
  /\ infer_string = FALSE
  /\ endpoint = ""
  /\ upstream = <<>>
  /\ pg = [t \in Threads |-> IdlePg]
  /\ requests = 0
  /\ db = EmptyStore
  /\ work = db
  /\ ld = IdleLoad
  /\ faults = 0
  /\ run = 1
  /\ paced = TRUE
  /\ pc = "none"
  /\ db_conn = "None"
  /\ session = "none"
  /\ candidates_df = <<>>
  /\ units = <<>>
  /\ job = [w \in Workers |-> 0]
  /\ contrib_dfs = <<>>
  /\ all_committee_ids = {}
  /\ all_contributions_df = <<>>
  /\ error = "none"
  /\ exit_status = "none"
  /\ history = <<>>
  /\ \/ \E x \in Strings \cup {NoneSeq} :
          call = [NoCall EXCEPT !.op = "_normalize_str", !.s = x, !.phase = "called"]
     \/ \E x \in 0..MaxTargets :
          call = [NoCall EXCEPT !.op = "max_workers", !.n = x, !.phase = "called"]
     \/ \E x \in HashRows :
          call = [NoCall EXCEPT !.op = "make_contribution_hash", !.row = x,
                                !.phase = "called"]
     \/ \E x, y \in ContributorRows :
          call = [NoCall EXCEPT !.op = "make_contributor_hash", !.row = x, !.row2 = y,
                                !.phase = "called"]

\* _normalize_str(s)
CallNormalize ==
  /\ driver = "call" /\ call.op = "_normalize_str" /\ call.phase = "called"
  /\ call' = [call EXCEPT !.out = normalize_str(call.s), !.phase = "returned"]
  /\ UNCHANGED <<paced, driver, api_key, infer_string, endpoint, upstream, pg, requests, db, work, ld,
                 faults, run, etlLocals>>

\* _normalize_str applied to its own result.
CallNormalizeAgain ==
  /\ driver = "call" /\ call.op = "_normalize_str" /\ call.phase = "returned"
  /\ call' = [call EXCEPT !.again = normalize_str(call.out), !.phase = "again"]
  /\ UNCHANGED <<paced, driver, api_key, infer_string, endpoint, upstream, pg, requests, db, work, ld,
                 faults, run, etlLocals>>

\* The max_workers expression of lines 146 and 225 for n targets.
CallMaxWorkers ==
  /\ driver = "call" /\ call.op = "max_workers" /\ call.phase = "called"
  /\ call' = [call EXCEPT !.workers = max_workers(call.n), !.phase = "returned"]
  /\ UNCHANGED <<paced, driver, api_key, infer_string, endpoint, upstream, pg, requests, db, work, ld,
                 faults, run, etlLocals>>

\* make_contribution_hash(row)
CallContributionHash ==
  /\ driver = "call" /\ call.op = "make_contribution_hash" /\ call.phase = "called"
  /\ \E out \in {make_contribution_hash(call.row)} :
       call' = IF out = UnicodeEncodeError THEN [call EXCEPT !.phase = "raised"]
               ELSE [call EXCEPT !.out = out, !.phase = "returned"]
  /\ UNCHANGED <<paced, driver, api_key, infer_string, endpoint, upstream, pg, requests, db, work, ld,
                 faults, run, etlLocals>>

\* make_contributor_hash on two rows of one frame (line 178 applies it to
\* every row): when it raises for one of them, nothing is returned.
CallContributorHash ==
  /\ driver = "call" /\ call.op = "make_contributor_hash" /\ call.phase = "called"
  /\ \E out \in {make_contributor_hash(call.row)}, out2 \in {make_contributor_hash(call.row2)} :
       call' = IF UnicodeEncodeError \in {out, out2} THEN [call EXCEPT !.phase = "raised"]
               ELSE [call EXCEPT !.out = out, !.out2 = out2, !.phase = "returned"]
  /\ UNCHANGED <<paced, driver, api_key, infer_string, endpoint, upstream, pg, requests, db, work, ld,
                 faults, run, etlLocals>>

vars ==
  <<driver, api_key, infer_string, endpoint, upstream, pg, requests, db, work, ld, faults, run,
    etlLocals, paced, call>>

Init == InitApi \/ InitLoader \/ InitEtl \/ InitCall

Next ==
  \/ ApiCall
  \/ \E t \in Threads : SessionGet(t)
  \/ \E t \in Threads : PacingSleep(t)
  \/ LoadChunk
  \/ LoadCommit
  \/ LoaderCall
  \/ LoaderClose
  \/ EtlStart
  \/ GetCandidates
  \/ CandidatesFetched
  \/ CandidatesLoaded
  \/ Submit
  \/ \E w \in Workers : WorkerTake(w)
  \/ \E w \in Workers : WorkerFinish(w)
  \/ HandleCompleted
  \/ Merge
  \/ UpsertContributors
  \/ NothingFetched
  \/ Except
  \/ Finally
  \/ NextRun
  \/ CallNormalize
  \/ CallNormalizeAgain
  \/ CallMaxWorkers
  \/ CallContributionHash
  \/ CallContributorHash

Spec == Init /\ [][Next]_vars

\* The steps of a pipeline run: the statements of the main thread and of the
\* workers, the answers of the upstream and of the store.
RunStep ==
  \/ EtlStart
  \/ GetCandidates
  \/ CandidatesFetched
  \/ CandidatesLoaded
  \/ Submit
  \/ \E w \in Workers : WorkerTake(w)
  \/ \E w \in Workers : WorkerFinish(w)
  \/ HandleCompleted
  \/ Merge
  \/ UpsertContributors
  \/ NothingFetched
  \/ Except
  \/ Finally
  \/ driver = "etl" /\ \E t \in Threads : SessionGet(t)
  \/ driver = "etl" /\ \E t \in Threads : PacingSleep(t)
  \/ driver = "etl" /\ LoadChunk
  \/ driver = "etl" /\ LoadCommit

\* A run that can take a step takes one: the interpreter runs the started
\* threads, every sleep ends, and the upstream and the store answer every
\* call (with a result or an error).  Starting another run is left to the
\* operator.
FairSpec == Spec /\ WF_vars(RunStep)

(***************************************************************************)
(* Properties.                                                             *)
(***************************************************************************)

\* C1: against an upstream that serves N >= 1 pages and answers every
\* request, a _fetch_all_pages call never sends more than N requests, has
\* returned exactly when the N-th has been answered, and what it has
\* accumulated is the concatenation, in page order, of the pages it has
\* asked for; when attempts failed and were retried, a call that returns
\* still returns the concatenation of the N pages, read once each.
PaginationComplete ==
  (driver = "api" /\ pg["main"].pc # "idle" /\ Truthy(api_key)
     /\ ServesAllPages(upstream[endpoint])) =>
    LET p == pg["main"]
        ps == upstream[endpoint]
        N == Len(ps)
    IN /\ p.failed = 0 =>
            /\ p.pc \in {"requesting", "sleeping", "returned"}
            /\ p.sent <= N
            /\ (p.pc = "returned") <=> (p.sent = N)
            /\ p.all_results = ConcatResults(ps, p.sent)
       /\ p.pc = "returned" =>
            /\ p.all_results = ConcatResults(ps, N)
            /\ p.pages_read = N
            /\ p.sent = N + p.failed

PaginationCompleteReached ==
  /\ driver = "api"
  /\ ServesAllPages(upstream[endpoint])
  /\ Len(upstream[endpoint]) >= 3
  /\ pg["main"].pc = "returned"
  /\ pg["main"].failed = 0
  /\ pg["main"].sent = Len(upstream[endpoint])
  /\ Len(pg["main"].all_results) > Len(upstream[endpoint])

\* C9: with FEC_API_KEY missing (None) or empty, a getter that is called
\* has raised ValueError and no request was sent; and a run of the pipeline
\* sends no request, reaches no stage after the candidate fetch and leaves
\* the store as it found it.
MissingCredentialFailsFast ==
  ~Truthy(api_key) =>
    /\ requests = 0
    /\ \A t \in Threads :
         /\ pg[t].pc \in {"idle", "raised"}
         /\ pg[t].pc = "raised" => pg[t].err = "ValueError"
         /\ pg[t].sent = 0
    /\ driver = "api" => (pg["main"].pc = "raised" => pg["main"].res = endpoint)
    /\ driver = "etl" =>
         /\ pc \in {"start", "get_candidates", "candidates_wait", "except", "finally",
                    "ended"}
         /\ ld = IdleLoad
         /\ units = <<>>
         /\ db = work
         /\ history # <<>> => db = history[1].before
         /\ pc = "ended" /\ db_conn = "closed" => error = "ValueError"

MissingCredentialRunEnded ==
  /\ driver = "etl"
  /\ api_key = ""
  /\ pc = "ended"
  /\ error = "ValueError"
  /\ requests = 0
  /\ db = SeededStore
  /\ upstream["candidates"][1].results # <<>>

Retryable(o) == o.kind = "conn" \/ (o.kind = "status" /\ o.status \in status_forcelist)

RetryAfterAnswer(o) ==
  o.kind = "status" /\ o.retry_after /\ o.status \in RETRY_AFTER_STATUS_CODES

OtherError(o) == o.kind = "status" /\ o.status >= 400 /\ o.status \notin status_forcelist

BoundedRetries(p) ==
  /\ p.tries <= RetryTotal + 1
  /\ (Retryable(p.last) /\ p.tries <= RetryTotal) => p.pc = "requesting"
  /\ (Retryable(p.last) /\ p.tries = RetryTotal + 1) =>
       /\ p.pc = "raised"
       /\ p.err = IF p.last.kind = "conn" THEN "ConnectionError" ELSE "RetryError"

ReissueStep ==
  \A t \in Threads :
    /\ (pg[t].pc = "requesting" /\ pg'[t].pc = "requesting" /\ pg'[t].sent = pg[t].sent + 1) =>
         /\ pg'[t].params = pg[t].params
         /\ pg'[t].all_results = pg[t].all_results
         /\ pg'[t].tries = pg[t].tries + 1
    /\ pg[t].pc = "raised" => pg'[t].pc \in {"raised", "idle"}

\* C10 (as the code has it): an attempt that fails with a connection
\* error or HTTP 500/502/504 is re-issued with the same parameters, at most
\* RetryTotal (3) times per request, and after the last failure the error
\* leaves the paginator (ConnectionError / RetryError); the same holds for
\* a 413/429/503 answer that carries a Retry-After header, whose HTTPError
\* leaves after the last re-issue; any other HTTP error status is not
\* re-issued: HTTPError leaves at once; after an error has left, the call
\* requests nothing more.
RetryPolicy ==
  /\ [](\A t \in Threads :
          /\ BoundedRetries(pg[t])
          /\ (OtherError(pg[t].last) /\ ~RetryAfterAnswer(pg[t].last)) =>
               (pg[t].pc = "raised" /\ pg[t].err = "HTTPError")
          /\ (RetryAfterAnswer(pg[t].last) /\ pg[t].tries <= RetryTotal) =>
               pg[t].pc = "requesting"
          /\ (RetryAfterAnswer(pg[t].last) /\ pg[t].tries = RetryTotal + 1) =>
               (pg[t].pc = "raised" /\ pg[t].err = "HTTPError"))
  /\ [][ReissueStep]_vars

RetryAfterReissued ==
  /\ driver = "api"
  /\ pg["main"].last = [kind |-> "status", status |-> 429, retry_after |-> TRUE]
  /\ pg["main"].tries = RetryTotal + 1
  /\ pg["main"].pc = "raised"
  /\ pg["main"].pages_read >= 1

\* C10 as the specification words it: every HTTP error status outside
\* 500/502/504 propagates at once, without a re-issue.
OtherErrorsNeverReissued ==
  \A t \in Threads :
    /\ BoundedRetries(pg[t])
    /\ OtherError(pg[t].last) =>
         (pg[t].pc = "raised" /\ pg[t].err = "HTTPError" /\ pg[t].tries = 1)

\* C2 as the specification words it: no two rows of contributions share a
\* contribution_hash, and once a run has ended every contribution it
\* fetched has exactly one row with its hash.
OneRowPerContribution ==
  /\ \A r1, r2 \in db.contributions :
       r1.contribution_hash = r2.contribution_hash => r1 = r2
  /\ (driver = "etl" /\ pc = "ended") =>
       \A i \in 1..Len(all_contributions_df) :
         Cardinality({r \in db.contributions :
            r.contribution_hash = make_contribution_hash(all_contributions_df[i])}) = 1

\* C3 as the specification words it: two fetched contributor records with
\* the same normalised fields have the same identity hash, and once the
\* run has ended the contributors table holds exactly one row with it (the
\* one contributor_id both map to).
SameContributorSameId ==
  (driver = "etl" /\ pc = "ended") =>
    \A i, j \in 1..Len(all_contributions_df) :
      NormParts(all_contributions_df[i].row) = NormParts(all_contributions_df[j].row) =>
        /\ all_contributions_df[i].contributor_hash = all_contributions_df[j].contributor_hash
        /\ Cardinality({r \in db.contributors :
             r.contributor_hash = all_contributions_df[i].contributor_hash}) = 1

\* The contributor upsert of this run has been executed (lines 191-200
\* follow the hashing of a non-empty frame that did not raise).
UpsertExecuted ==
  /\ driver = "etl"
  /\ all_contributions_df # <<>>
  /\ error # "UnicodeEncodeError"
  /\ pc \in {"stage3", "except", "finally", "ended"}

\* The rows the upsert was given whose identity hash was stored before.
MetRows ==
  {c \in Range(contributors_df(all_contributions_df)) :
     c.contributor_hash \in KeysOf(history[run].before.contributors, "contributor_hash")}

StoredRow(store, h) == CHOOSE r \in store.contributors : r.contributor_hash = h

\* C4 as the specification words it: after the upsert the stored row of a
\* met identity hash carries the incoming descriptive fields and its old
\* contributor_id.
StoredContributorOverwritten ==
  UpsertExecuted =>
    \A c \in MetRows :
      LET r == StoredRow(db, c.contributor_hash)
      IN /\ r.name = c.name /\ r.city = c.city /\ r.state = c.state
         /\ r.zip_code = c.zip_code /\ r.occupation = c.occupation
         /\ r.employer = c.employer
         /\ r.contributor_id =
              StoredRow(history[run].before, c.contributor_hash).contributor_id

DoneUnits == {i \in 1..Len(units) : units[i].st = "done"}
FailedUnits == {i \in 1..Len(units) : units[i].st = "failed"}

RECURSIVE SuccessfulSize(_)
SuccessfulSize(n) ==
  IF n = 0 THEN 0
  ELSE SuccessfulSize(n - 1) + (IF units[n].st = "done" THEN Len(units[n].df) ELSE 0)

Served(res) ==
  transform_contributions_to_df(ConcatResults(upstream[res], Len(upstream[res])),
                                infer_string)

\* C5: once the contribution fan-out has been merged, every unit has
\* completed or failed, a unit has failed only through the failure of its
\* own fetch, every other unit holds everything the upstream serves for
\* it, no error has reached the coordinator, and the merged frame holds
\* the rows of the successful units and nothing else (its length is the
\* sum of their sizes).
FanOutIsolated ==
  (driver = "etl" /\ pc \in {"upsert_contributors", "stage3"}) =>
    /\ units # <<>>
    /\ \A i \in 1..Len(units) : units[i].handled /\ units[i].st \in {"done", "failed"}
    /\ Cardinality(FailedUnits) = faults
    /\ \A i \in DoneUnits : units[i].df = Served(units[i].name)
    /\ error = "none"
    /\ Len(all_contributions_df) = SuccessfulSize(Len(units))
    /\ Len(contrib_dfs) = Cardinality({i \in DoneUnits : units[i].df # <<>>})
    /\ \A i \in DoneUnits :
         units[i].df # <<>> => \E k \in 1..Len(contrib_dfs) : contrib_dfs[k] = units[i].df
    /\ \A k \in 1..Len(all_contributions_df) :
         \E i \in DoneUnits : all_contributions_df[k].row \in Range(units[i].df)

OneUnitFailedOthersMerged ==
  /\ driver = "etl"
  /\ pc = "upsert_contributors"
  /\ Len(units) = 2
  /\ units[1].st = "failed"
  /\ units[2].st = "done"
  /\ Len(all_contributions_df) = 2

\* load_df_to_db run to its end on a store: what it leaves committed.  A
\* load that raises leaves the rows as they were and the sequences at the
\* values it has issued.
LoadResult(store, table_name, pk, df) ==
  LET r == run_pages(store, load_query(table_name, pk), df)
  IN IF r.ok THEN r.store ELSE [store EXCEPT !.seq = r.store.seq]

UninterruptedRun(store) ==
  LET df == transform_candidates_to_df(
              ConcatResults(upstream["candidates"], Len(upstream["candidates"])))
  IN IF ~Truthy(api_key) \/ df = <<>> THEN store
     ELSE LoadResult(store, "candidates", "candidate_id", df)

NoDuplicatedRow(store) ==
  /\ Cardinality(KeysOf(store.candidates, "candidate_id")) = Cardinality(store.candidates)
  /\ Cardinality(KeysOf(store.committees, "committee_id")) = Cardinality(store.committees)
  /\ Cardinality(KeysOf(store.contributors, "contributor_hash")) =
       Cardinality(store.contributors)
  /\ Cardinality(KeysOf(store.contributions, "contribution_hash")) =
       Cardinality(store.contributions)

\* C6: a run without a failure, whether it is the first run or follows
\* runs that aborted anywhere or ran through, ends with the store that one
\* uninterrupted run from the original store leaves, and no table holds
\* two rows with one key.
Rerunnable ==
  (driver = "etl" /\ pc = "ended" /\ faults = 0) =>
    /\ db = UninterruptedRun(history[1].before)
    /\ NoDuplicatedRow(db)

CompleteRunAfterAbort ==
  /\ driver = "etl"
  /\ pc = "ended"
  /\ run = 2
  /\ faults = 0
  /\ error = "none"
  /\ history[1].error \in {"HTTPError", "OperationalError"}
  /\ history[1].after = history[1].before
  /\ db # history[1].before

ErrorSurfaced ==
  (driver = "etl" /\ pc = "ended") =>
    \/ (error = "none" /\ exit_status = "returned")
    \/ (error # "none" /\ exit_status = "raised")

\* The tables load_df_to_db upserts by their natural key (lines 94-111).
NaturalKeyTables == {"candidates", "committees"}

\* The row of the frame that is sent last among those with key k.
LastWithKey(df, pk, k) ==
  df[CHOOSE i \in 1..Len(df) :
       /\ df[i][pk] = k
       /\ \A j \in 1..Len(df) : df[j][pk] = k => j <= i]

\* C12: after load_df_to_db has loaded a batch into a natural-key table,
\* every key of the batch has exactly one stored row, which carries the
\* incoming values (those of the last row sent with that key), and the rows
\* whose key is not in the batch are the rows stored before, unchanged.
UpsertLastWriteWins ==
  (ld.phase = "returned" /\ ld.table \in NaturalKeyTables /\ ld.tuples # <<>>) =>
    LET keys == KeysOf(Range(ld.tuples), ld.pk)
    IN /\ \A k \in keys :
            {r \in db[ld.table] : r[ld.pk] = k} = {LastWithKey(ld.tuples, ld.pk, k)}
       /\ {r \in db[ld.table] : r[ld.pk] \notin keys} =
            {r \in ld.before[ld.table] : r[ld.pk] \notin keys}

\* A batch has been loaded that carries a stored key with other values, next
\* to a key that was not stored: the stored row now holds the incoming values.
StoredKeyOverwritten ==
  /\ ld.phase = "returned"
  /\ ld.table \in NaturalKeyTables
  /\ \E r \in ld.before[ld.table] :
       /\ r \notin db[ld.table]
       /\ \E i \in 1..Len(ld.tuples) :
            ld.tuples[i][ld.pk] = r[ld.pk] /\ ld.tuples[i] \in db[ld.table]
  /\ \E i \in 1..Len(ld.tuples) :
       ld.tuples[i][ld.pk] \notin KeysOf(ld.before[ld.table], ld.pk)

\* C13 as the specification words it: during a pipeline run every request
\* sent to the upstream but the first one is sent after a pacing pause that
\* has ended since the request before it, whichever thread sent that one.
OneRequestPerSecond ==
  [][(driver = "etl" /\ requests' = requests + 1) => (requests = 0 \/ paced)]_vars

\* C14: _normalize_str maps None to the empty string; its result holds no
\* upper-case letter, no whitespace but single spaces between two other
\* characters (none leading, none trailing, no two in a row), so that
\* '  JOHN  DOE ' gives 'john doe'; and normalising the result again gives
\* the result.
NormalizeContract ==
  (driver = "call" /\ call.op = "_normalize_str" /\ call.phase \in {"returned", "again"}) =>
    /\ call.s = NoneSeq => call.out = <<>>
    /\ \A i \in 1..Len(call.out) :
         /\ lower(<<call.out[i]>>) = <<call.out[i]>>
         /\ call.out[i] \in Whitespace =>
              /\ call.out[i] = 32
              /\ 1 < i /\ i < Len(call.out)
              /\ call.out[i + 1] \notin Whitespace
    /\ call.s = <<32, 74, 32, 10, 98, 32>> => call.out = text(<<"j", " ", "b">>)
    /\ call.s = JohnDoe => call.out = text(<<"j", "o", "h", "n", " ", "d", "o", "e">>)
    /\ call.s = JoseOdos =>
         call.out = text(<<"j", "o", "s">>) \o
                      <<233, 32, 959, 948, 972, 962, 32, 963, 959, 966, 972, 962,
                        32, 105, 775, 122, 109, 105, 775, 114>>
    /\ call.phase = "again" => call.again = call.out

\* The string of the repository's test (capitals, leading and trailing
\* whitespace, runs of two spaces) has been normalised twice.
NormalizedTwice ==
  /\ driver = "call"
  /\ call.op = "_normalize_str"
  /\ call.phase = "again"
  /\ call.s = JohnDoe
  /\ call.out = text(<<"j", "o", "h", "n", " ", "d", "o", "e">>)
  /\ call.again = call.out

\* C15: workers run fetch units only while the coordinator is in the
\* fan-out (submitting the units or taking the completed ones); when the stage after it (the contributor upsert, then the
\* committee stage and the loads) starts, and whenever a load runs or the
\* connection holds a write, no worker has a unit, no fetch is in progress
\* and every unit has finished and has been merged or recorded as failed.
StageAfterDrain ==
  driver = "etl" =>
    /\ pc \notin {"submit", "as_completed"} =>
         \A w \in Workers : job[w] = 0 /\ pg[w] = IdlePg
    /\ pc \in {"upsert_contributors", "stage3"} =>
         \A i \in 1..Len(units) :
           /\ units[i].st \in {"done", "failed"}
           /\ units[i].handled
           /\ (units[i].st = "done" /\ units[i].df # <<>>) =>
                \E k \in 1..Len(contrib_dfs) : contrib_dfs[k] = units[i].df
    /\ (ld.phase = "chunks" \/ work # db) =>
         /\ \A w \in Workers : job[w] = 0 /\ pg[w] = IdlePg
         /\ \A i \in 1..Len(units) : units[i].st \notin {"queued", "running"}

\* The contributor upsert is about to start after a fan-out of two units
\* that both returned rows.
UpsertAfterTwoUnits ==
  /\ driver = "etl"
  /\ pc = "upsert_contributors"
  /\ Len(units) = 2
  /\ \A i \in 1..2 : units[i].st = "done" /\ units[i].df # <<>>
  /\ Len(contrib_dfs) = 2

\* C16: for n targets the worker count is n \div 10 where that lies in 2..8,
\* 2 where it is smaller and 8 where it is larger.
WorkerCountClamped ==
  (driver = "call" /\ call.op = "max_workers" /\ call.phase = "returned") =>
    /\ 2 <= call.workers /\ call.workers <= 8
    /\ call.n \div 10 < 2 => call.workers = 2
    /\ call.n \div 10 > 8 => call.workers = 8
    /\ (2 <= call.n \div 10 /\ call.n \div 10 <= 8) => call.workers = call.n \div 10

\* The count has been computed for a number of targets whose tenth exceeds
\* the ceiling.
CeilingApplied ==
  /\ driver = "call"
  /\ call.op = "max_workers"
  /\ call.phase = "returned"
  /\ call.n \div 10 > 8
  /\ call.workers = 8

\* An envelope whose pagination object, or one of its page, pages or
\* last_indexes fields, is missing.
Malformed(e) ==
  \/ ~e.has_pagination
  \/ e.page = NoneInt
  \/ e.pages = NoneInt
  \/ e.last_indexes = "None"

\* C17 as the specification words it: once the paginator has read a response
\* with a malformed pagination envelope it has returned, without an error,
\* the results of the pages read so far.
MalformedEnvelopeStops ==
  (driver = "api" /\ pg["main"].pages_read \in 1..Len(upstream[endpoint])
     /\ Malformed(upstream[endpoint][pg["main"].pages_read])) =>
    /\ pg["main"].pc = "returned"
    /\ pg["main"].err = "none"
    /\ pg["main"].all_results = ConcatResults(upstream[endpoint], pg["main"].pages_read)

\* C18 as the specification words it: after a response has been read (one
\* whose page numbers can be compared), the paginator has stopped exactly
\* when the response carries no cursor or page >= pages; otherwise the
\* parameters of the next request hold that response's last_index, that
\* response's last_contribution_receipt_date if its cursor has one and none
\* if it has not, and the credential, page and per_page as they were.
CursorFromPrecedingResponse ==
  (driver = "api" /\ pg["main"].pages_read \in 1..Len(upstream[endpoint])) =>
    LET p == pg["main"]
        e == upstream[endpoint][p.pages_read]
        no_cursor == ~e.has_pagination \/ e.last_indexes # "dict"
    IN (no_cursor \/ (e.page # NoneInt /\ e.pages # NoneInt)) =>
         IF no_cursor \/ e.page >= e.pages
         THEN p.pc = "returned"
         ELSE /\ p.pc # "returned"
              /\ p.params.last_index = e.last_index
              /\ p.params.last_date = (IF e.has_date THEN e.date ELSE NoneInt)
              /\ p.params.api_key = api_key
              /\ p.params.page = 1
              /\ p.params.per_page = per_page

\* C19: no step changes or removes a committed contributions row, and no
\* chunk of a running load changes or removes a row the connection already
\* holds: whatever is loaded, a row with a stored contribution_hash keeps
\* its committee_id, contributor_id, contribution_date, contribution_amount
\* and contribution_id.
StoredContributionImmutable ==
  [][/\ \A r \in db.contributions : r \in db'.contributions
     /\ (ld.phase = "chunks" /\ ld'.phase \in {"chunks", "raised"}) =>
          \A r \in work.contributions : r \in work'.contributions]_vars

\* A load of contributions has returned whose batch carried the hash of a
\* row that was stored before it: the row is stored as it was, and nothing
\* was added for that hash.
StoredHashReloaded ==
  /\ ld.phase = "returned"
  /\ ld.table = "contributions"
  /\ \E r \in ld.before.contributions :
       /\ \E i \in 1..Len(ld.tuples) :
            ld.tuples[i].contribution_hash = r.contribution_hash
       /\ r \in db.contributions
       /\ Cardinality({x \in db.contributions :
                         x.contribution_hash = r.contribution_hash}) = 1

\* C20 as the specification words it: the contribution hash is the digest
\* of committee_id, the raw text of contribution_date, the raw text of
\* contribution_amount and the contributor hash, joined by '|' in that
\* order; the hash of a contribution whose amount is 0 is taken over the
\* text of 0 and is not the hash of the same contribution with no amount.
HashOverRawFields ==
  (driver = "call" /\ call.op = "make_contribution_hash" /\ call.phase = "returned") =>
    /\ call.out =
         sha256_hex(join(<<124>>,
           <<StrOrEmpty(call.row.row.committee_id),
             StrOrEmpty(call.row.row.contribution_date),
             IF call.row.row.contribution_amount.kind = "None" THEN <<>>
             ELSE str_amount(call.row.row.contribution_amount),
             StrOrEmpty(call.row.contributor_hash)>>))
    /\ (call.row.row.contribution_amount.kind \in {"int", "float"}
          /\ call.row.row.contribution_amount.v = 0) =>
         call.out # make_contribution_hash(
                      [call.row EXCEPT !.row.contribution_amount = NoneAmount])

\* The units whose frame has to be in the merge list: handled, successful
\* and not empty.
MergedUnits ==
  {i \in 1..Len(units) : units[i].handled /\ units[i].st = "done" /\ units[i].df # <<>>}

\* C21: the list of per-unit frames and the set of committee ids change
\* only in a step of the coordinating thread that takes one completed,
\* not yet handled unit and appends its frame (no worker moves in that
\* step, a worker only hands its frame to its own unit), or when a new run
\* starts with fresh ones; and at every moment the list holds the frame of
\* every handled successful unit exactly once, whatever the order in which
\* the workers completed.
SingleWriterMerge ==
  /\ [](driver = "etl" =>
          /\ Len(contrib_dfs) = Cardinality(MergedUnits)
          /\ \A i \in MergedUnits :
               Cardinality({k \in 1..Len(contrib_dfs) : contrib_dfs[k] = units[i].df}) =
                 Cardinality({j \in MergedUnits : units[j].df = units[i].df})
          /\ \A i \in MergedUnits :
               \A j \in 1..Len(units[i].df) :
                 units[i].df[j].committee_id = NoneSeq
                   \/ units[i].df[j].committee_id \in all_committee_ids)
  /\ [][(contrib_dfs' # contrib_dfs \/ all_committee_ids' # all_committee_ids) =>
          \/ /\ contrib_dfs' = <<>> /\ all_committee_ids' = {} /\ units' = <<>>
          \/ /\ pg' = pg /\ job' = job
             /\ \E i \in 1..Len(units) :
                  /\ units[i].st = "done" /\ ~units[i].handled
                  /\ units' = [units EXCEPT ![i].handled = TRUE]
                  /\ contrib_dfs' = contrib_dfs \o <<units[i].df>>]_vars

\* Both units of a fan-out succeeded and the second completed first: its
\* frame precedes the first unit's in the list, and both are there.
MergedInCompletionOrder ==
  /\ driver = "etl"
  /\ Len(units) = 2
  /\ MergedUnits = {1, 2}
  /\ units[1].df # units[2].df
  /\ contrib_dfs = <<units[2].df, units[1].df>>

\* C23 as the specification words it: two rows whose normalised contributor
\* tuples differ never get the same joined string, and so never the same
\* contributor hash.
JoinIdentifiesTuple ==
  (driver = "call" /\ call.op = "make_contributor_hash" /\ call.phase = "returned"
     /\ NormParts(call.row) # NormParts(call.row2)) =>
    call.out # call.out2

\* C24: a run that has created its HTTP session ends, whatever stage
\* aborted it, with the session closed and the connection closed if it was
\* opened (it is None when connecting failed); a run that has ended holds
\* no open session or connection; and while the session is closed nothing
\* is written to the store and no request is sent, until a new run starts.
ClosedOnEveryPath ==
  /\ (driver = "etl" /\ session = "open") ~>
       (pc = "ended" /\ session = "closed" /\ db_conn \in {"closed", "None"})
  /\ []((driver = "etl" /\ pc = "ended") =>
          /\ session = "closed"
          /\ db_conn = "closed" \/ (db_conn = "None" /\ error = "OperationalError"))
  /\ [][(driver = "etl" /\ session = "closed") =>
          /\ db' = db /\ work' = work
          /\ session' = "closed" => requests' = requests
          /\ session' # "closed" => (run' = run + 1 /\ pc' = "start")]_vars

\* A run that had opened the connection and sent requests was aborted by an
\* error and has ended with the session and the connection closed.
AbortedRunClosed ==
  /\ driver = "etl"
  /\ pc = "ended"
  /\ error # "none"
  /\ requests > 0
  /\ db_conn = "closed"
  /\ session = "closed"

====
